---- MODULE Spec2Model ----
(***************************************************************************)
(* A model of the application supervisor of github.com/luno/lu (package    *)
(* lu, app.go): hook and process registration, Launch, the process tasks   *)
(* of the error group, the two phase Shutdown followed by the shutdown     *)
(* hooks, and Run with the signals and contexts of AppContext.             *)
(* Beside it, package process: the loops ContextLoop and ContextRetry      *)
(* (loop.go), the error sleep of MakeErrorSleepFunc (options.go) and the   *)
(* process made by Scheduled (schedule.go).                                *)
(***************************************************************************)
EXTENDS Integers, Sequences, FiniteSets, TLC

\* Bounds of the model.
MaxProcs == 2
MaxStartHooks == 2
MaxStopHooks == 2
MaxRuns == 2
MaxSignals == 2
MaxRunProcs == 1
MaxRunHooks == 1

\* Error values. Wrapping keeps the identity of the wrapped error, so an
\* error is modelled by its kind and by the process or hook that made it.
Nil == [k |-> "nil", i |-> 0]
Canceled == [k |-> "Canceled", i |-> 0]
DeadlineExceeded == [k |-> "DeadlineExceeded", i |-> 0]
errProcessPanicked == [k |-> "errProcessPanicked", i |-> 0]
ErrBreakContextLoop == [k |-> "ErrBreakContextLoop", i |-> 0]
\* errProcessStillRunning wrapped once per running process and joined.
errProcessStillRunning(running) ==
  [k |-> "errProcessStillRunning", i |-> Len(running)]
RunErr(i) == [k |-> "run", i |-> i]
ShutErr(i) == [k |-> "shutdown", i |-> i]
HookErr(h) == [k |-> "hook", i |-> h]

HookPriorityFirst == -100
HookPriorityDefault == 0
HookPriorityLast == 100

\* Names: the empty name of the application events, a hook named after its
\* registration order, a process named after its position.
NoName == <<>>
HookName(c) == <<"hook", c>>
ProcName(i) == <<"proc", i>>

Event(t, n) == [Type |-> t, Name |-> n]

VARIABLES
  RecoverAll,      \* App.RecoverAll
  UseProcessFile,  \* App.UseProcessFile
  pidFile,         \* whether the file /tmp/lu.pid exists
  startupHooks,    \* App.startupHooks
  shutdownHooks,   \* App.shutdownHooks
  processes,       \* App.processes
  processRunning,  \* App.processRunning: "nil", "open" or "closed" per process
  parentErr,       \* Err() of the context the caller hands to Launch
  startCtxErr,     \* Err() of the startup context (parent with StartupTimeout)
  appCtxErr,       \* Err() of App.ctx, the shared run context
  appCtxMade,      \* App.ctx, App.cancel and App.eg have been created
  egErr,           \* the error group's first error
  launchPc,        \* position of Launch
  hookIdx,         \* index of the startup hook loop
  dispatchIdx,     \* index of the process loop of Launch
  launchCtxApp,    \* Launch's ctx variable has been rebound to the app context
  launchRes,       \* the value Launch returned
  tasks,           \* per process: the task started by eg.Go
  shutPc,          \* position of Shutdown
  shutCtxErr,      \* Err() of Shutdown's context (ShutdownTimeout)
  shuts,           \* per process: the goroutine calling p.Shutdown
  signalSet,       \* the signal shared by the explicit Shutdown functions
  shutCount,       \* Shutdown's shutCount
  collected,       \* Shutdown's loop variable i
  errs,            \* Shutdown's errs
  shutRes,         \* the value Shutdown returned
  stopIdx,         \* index of the shutdown hook loop
  cleanupErrs,     \* cleanup's errs
  events,          \* the Events Launch and Shutdown handed to OnEvent, in order
  logged,          \* the errors handed to log.Error
  OnShutdownErr,   \* App.OnShutdownErr: "nil", or what the function returns
  runPc,           \* position of Run
  exit,            \* Run's exit variable, the value it returns
  termCtxErr,      \* Err() of AppContext.TerminationContext
  signals,         \* AppContext.signals, a channel with a buffer of one
  handled,         \* the signals monitor has received, in order
  loopKind,        \* "loop" for ContextLoop, "retry" for ContextRetry
  opts,            \* the options of the loop: maxErrors, isBreakableLoop,
                   \* sleep and errorSleep
  loopPc,          \* position of the process function of the loop
  errCount,        \* the errCount variable of the loop
  loopCtxErr,      \* Err() of the context Run is called with
  loopCtxCause,    \* context.Cause of that context
  runCtxErr,       \* Err() of the context getCtx returned
  runCtxCause,     \* context.Cause of that context
  loopRet,         \* the value the process function returned
  calls,           \* what each invocation of the unit of work returned
  sleeps,          \* the durations lu.Wait was called with, in order
  waitRes,         \* what the last lu.Wait returned
  errCounter,      \* opts.errCounter
  esArgs,          \* r, d, backoff of MakeErrorSleepFunc and an errCount
  esResult,        \* what the ErrorSleepFunc returned for esArgs
  fnArgs,          \* a schedule, an instant now and a last run time
  fnResult,        \* what Next, Previous and nextExecution returned
  schedOpts,       \* scheduleRunner.when and scheduleRunner.o.maxErrors
  clockNow,        \* Now() of the clock, in seconds
  cursor,          \* the string the Cursor holds under the schedule's name
  ErrCount,        \* scheduleRunner.ErrCount
  schedPc,         \* position of the process function of Scheduled
  lastDone,        \* doNext's lastDone
  next,            \* doNext's next, the due instant
  schedCtxErr,     \* Err() of the context the scheduled process runs with
  schedCtxCause,   \* context.Cause of that context
  schedRet,        \* what Run of the scheduled process returned
  gaveUp,          \* whether the last doNext returned from line 283
  roleCtxErr,      \* Err() of the context awaitRole returned
  doneRuns,        \* due instants of the ScheduledFunc calls that returned nil
  wakeAt,          \* the instant the timer of processLoop's wait fires
  failed           \* due instant, run ID and lastDone of the last call that
                   \* failed, until the cursor is written

appVars == <<RecoverAll, UseProcessFile, pidFile, startupHooks, shutdownHooks,
             processes, processRunning, parentErr, startCtxErr, appCtxErr,
             appCtxMade, egErr, launchPc, hookIdx, dispatchIdx, launchCtxApp,
             launchRes, tasks, shutPc, shutCtxErr, shuts, signalSet, shutCount,
             collected, errs, shutRes, stopIdx, cleanupErrs, events, logged,
             OnShutdownErr, runPc, exit, termCtxErr, signals, handled>>

loopVars == <<loopKind, opts, loopPc, errCount, loopCtxErr, loopCtxCause,
              runCtxErr, runCtxCause, loopRet, calls, sleeps, waitRes,
              errCounter>>
sleepFuncVars == <<esArgs, esResult, fnArgs, fnResult>>
schedVars == <<schedOpts, clockNow, cursor, ErrCount, schedPc, lastDone, next,
               schedCtxErr, schedCtxCause, schedRet, gaveUp, roleCtxErr,
               doneRuns, wakeAt, failed>>
procVars == <<loopVars, sleepFuncVars, schedVars>>

vars == <<appVars, procVars>>

runVars == <<OnShutdownErr, runPc, exit, termCtxErr, signals, handled>>

configVars == <<RecoverAll, UseProcessFile, startupHooks, shutdownHooks,
                processes>>
ctxVars == <<parentErr, startCtxErr, appCtxErr, appCtxMade, egErr>>
launchVars == <<launchPc, hookIdx, dispatchIdx, launchCtxApp, launchRes>>
shutVars == <<shutPc, shutCtxErr, shuts, signalSet, shutCount, collected,
              errs, shutRes, stopIdx, cleanupErrs>>

Emit(e) == events' = Append(events, e)

----------------------------------------------------------------------------
\* Hooks

Hook(c, p) == [Name |-> HookName(c), createOrder |-> c, Priority |-> p]

\* Variant of HookLess: the priority is ignored.
HookLessByCreation(hi, hj) == hi.createOrder < hj.createOrder

HookLess(hi, hj) ==
  IF hi.Priority # hj.Priority
    THEN hi.Priority < hj.Priority
    ELSE hi.createOrder < hj.createOrder

RECURSIVE Insert(_, _)
Insert(h, s) ==
  IF s = <<>> THEN <<h>>
  ELSE IF HookLess(h, Head(s)) THEN <<h>> \o s
  ELSE <<Head(s)>> \o Insert(h, Tail(s))

RECURSIVE sortHooks(_)
sortHooks(h) ==
  IF h = <<>> THEN <<>> ELSE Insert(Head(h), sortHooks(Tail(h)))

Priorities == {HookPriorityDefault}

OnStartUp(p) ==
  /\ launchPc = "new"
  /\ Len(startupHooks) < MaxStartHooks
  /\ startupHooks' = sortHooks(Append(startupHooks, Hook(Len(startupHooks), p)))
  /\ UNCHANGED <<procVars, runVars, RecoverAll, UseProcessFile, pidFile, shutdownHooks,
                 processes, processRunning, ctxVars, launchVars, tasks,
                 shutVars, events, logged>>

OnShutdown(p) ==
  /\ launchPc = "new"
  /\ Len(shutdownHooks) < MaxStopHooks
  /\ shutdownHooks' =
       sortHooks(Append(shutdownHooks, Hook(Len(shutdownHooks), p)))
  /\ UNCHANGED <<procVars, runVars, RecoverAll, UseProcessFile, pidFile, startupHooks,
                 processes, processRunning, ctxVars, launchVars, tasks,
                 shutVars, events, logged>>

----------------------------------------------------------------------------
\* Processes

\* Run is whether the Run function is set. Shutdown is "nil" for no explicit
\* Shutdown function, "signal" for one that sets the shared signal and
\* returns, "wait" for one that blocks until the shared signal is set (or,
\* when it honours its context, until that context is done).
Process(i, run, shut, rec) ==
  [Name |-> ProcName(i), Run |-> run, Shutdown |-> shut, Recover |-> rec]

AddProcess(run, shut, rec) ==
  /\ launchPc = "new"
  /\ Len(processes) < MaxProcs
  /\ processes' =
       Append(processes, Process(Len(processes) + 1, run, shut, rec))
  /\ UNCHANGED <<procVars, runVars, RecoverAll, UseProcessFile, pidFile, startupHooks,
                 shutdownHooks, processRunning, ctxVars, launchVars, tasks,
                 shutVars, events, logged>>

Procs == 1..Len(processes)

otherVars == <<processRunning, tasks, shutVars, logged>>

----------------------------------------------------------------------------
\* The startup deadline

\* StartupTimeout elapses while startup runs.
StartupDeadline ==
  /\ launchPc \in {"startup", "hook"}
  /\ startCtxErr = Nil
  /\ startCtxErr' = DeadlineExceeded
  /\ UNCHANGED <<procVars, runVars, configVars, pidFile, parentErr, appCtxErr, appCtxMade, egErr,
                 launchVars, otherVars, events>>

----------------------------------------------------------------------------
\* Launch

\* Launch up to the call of startup: setDefaults, the pid file, AppStartup.
LaunchBegin ==
  /\ launchPc = "new"
  /\ RecoverAll' = FALSE
  /\ IF UseProcessFile /\ pidFile
       THEN /\ launchPc' = "failed"
            /\ launchRes' = [k |-> "process already running", i |-> 0]
            /\ UNCHANGED <<pidFile, events, startCtxErr>>
       ELSE /\ pidFile' = (UseProcessFile \/ pidFile)
            /\ Emit(Event("AppStartup", NoName))
            /\ launchPc' = "startup"
            /\ startCtxErr' = parentErr
            /\ UNCHANGED launchRes
  /\ UNCHANGED <<procVars, runVars, UseProcessFile, startupHooks, shutdownHooks, processes,
                 parentErr, appCtxErr, appCtxMade, egErr, hookIdx,
                 dispatchIdx, launchCtxApp, otherVars>>

\* One iteration of startup's loop up to the call of the hook.
StartupHookBegin ==
  /\ launchPc = "startup"
  /\ hookIdx <= Len(startupHooks)
  /\ IF startCtxErr # Nil
       THEN /\ launchPc' = "failed"
            /\ launchRes' = startCtxErr
            /\ UNCHANGED events
       ELSE /\ Emit(Event("PreHookStart", startupHooks[hookIdx].Name))
            /\ launchPc' = "hook"
            /\ UNCHANGED launchRes
  /\ UNCHANGED <<procVars, runVars, configVars, pidFile, ctxVars, hookIdx, dispatchIdx,
                 launchCtxApp, otherVars>>

\* The hook returns err; the rest of the iteration.
StartupHookEnd(err) ==
  /\ launchPc = "hook"
  /\ IF err # Nil
       THEN /\ launchPc' = "failed"
            /\ launchRes' = err
            /\ UNCHANGED <<events, hookIdx>>
       ELSE /\ Emit(Event("PostHookStart", startupHooks[hookIdx].Name))
            /\ hookIdx' = hookIdx + 1
            /\ launchPc' = "startup"
            /\ UNCHANGED launchRes
  /\ UNCHANGED <<procVars, runVars, configVars, pidFile, ctxVars, dispatchIdx, launchCtxApp,
                 otherVars>>

\* The task eg.Go starts for a process: its position, whether it was started
\* with recovery, the number of invocations of Run so far, the number of
\* ProcessEnd events it has emitted, the error it returned to the group and
\* whether it failed, without recovery, before Shutdown was called.
Task(pc, rec, runs, ends, ret, early) ==
  [pc |-> pc, recover |-> rec, runs |-> runs, ends |-> ends, ret |-> ret,
   early |-> early]
NoTask == Task("none", FALSE, 0, 0, Nil, FALSE)

\* Variant of StartupEnd: startup returns nil after its loop without looking
\* at its context.
StartupEndNoCtxCheck ==
  /\ launchPc = "startup"
  /\ hookIdx > Len(startupHooks)
  /\ launchPc' = "dispatch"
  /\ appCtxMade' = TRUE
  /\ appCtxErr' = parentErr
  /\ processRunning' = [i \in Procs |-> "nil"]
  /\ tasks' = [i \in Procs |-> NoTask]
  /\ UNCHANGED <<procVars, runVars, configVars, pidFile, parentErr, startCtxErr, egErr, hookIdx,
                 dispatchIdx, launchCtxApp, launchRes, shutVars, events,
                 logged>>

\* startup returns after its loop; on nil Launch creates the app context,
\* the error group and the processRunning slice.
StartupEnd ==
  /\ launchPc = "startup"
  /\ hookIdx > Len(startupHooks)
  /\ IF startCtxErr # Nil
       THEN /\ launchPc' = "failed"
            /\ launchRes' = startCtxErr
            /\ UNCHANGED <<appCtxErr, appCtxMade, processRunning, tasks>>
       ELSE /\ launchPc' = "dispatch"
            /\ appCtxMade' = TRUE
            /\ appCtxErr' = parentErr
            /\ processRunning' = [i \in Procs |-> "nil"]
            /\ tasks' = [i \in Procs |-> NoTask]
            /\ UNCHANGED launchRes
  /\ UNCHANGED <<procVars, runVars, configVars, pidFile, parentErr, startCtxErr, egErr, hookIdx,
                 dispatchIdx, launchCtxApp, shutVars, events, logged>>

\* Variant of Dispatch: the done channel of a process without a Run function
\* is left open.
DispatchNoClose ==
  /\ launchPc = "dispatch"
  /\ dispatchIdx <= Len(processes)
  /\ LET i == dispatchIdx
         p == processes[i]
     IN IF ~p.Run
          THEN /\ processRunning' = [processRunning EXCEPT ![i] = "open"]
               /\ UNCHANGED <<events, tasks, launchCtxApp>>
          ELSE /\ processRunning' = [processRunning EXCEPT ![i] = "open"]
               /\ launchCtxApp' = TRUE
               /\ Emit(Event("ProcessStart", p.Name))
               /\ tasks' = [tasks EXCEPT
                               ![i] = Task("running", RecoverAll \/ p.Recover,
                                           1, 0, Nil, FALSE)]
  /\ dispatchIdx' = dispatchIdx + 1
  /\ UNCHANGED <<procVars, runVars, configVars, pidFile, ctxVars, launchPc, hookIdx, launchRes,
                 shutVars, logged>>

\* Variant of Dispatch: no ProcessStart event is emitted.
DispatchSilent ==
  /\ launchPc = "dispatch"
  /\ dispatchIdx <= Len(processes)
  /\ LET i == dispatchIdx
         p == processes[i]
     IN IF ~p.Run
          THEN /\ processRunning' = [processRunning EXCEPT ![i] = "closed"]
               /\ UNCHANGED <<tasks, launchCtxApp>>
          ELSE /\ processRunning' = [processRunning EXCEPT ![i] = "open"]
               /\ launchCtxApp' = TRUE
               /\ tasks' = [tasks EXCEPT
                               ![i] = Task("running", RecoverAll \/ p.Recover,
                                           1, 0, Nil, FALSE)]
  /\ dispatchIdx' = dispatchIdx + 1
  /\ UNCHANGED <<procVars, runVars, configVars, pidFile, ctxVars, launchPc, hookIdx, launchRes,
                 shutVars, events, logged>>

\* One iteration of Launch's loop over the processes.
Dispatch ==
  /\ launchPc = "dispatch"
  /\ dispatchIdx <= Len(processes)
  /\ LET i == dispatchIdx
         p == processes[i]
     IN IF ~p.Run
          THEN /\ processRunning' = [processRunning EXCEPT ![i] = "closed"]
               /\ UNCHANGED <<events, tasks, launchCtxApp>>
          ELSE /\ processRunning' = [processRunning EXCEPT ![i] = "open"]
               /\ launchCtxApp' = TRUE
               /\ Emit(Event("ProcessStart", p.Name))
               /\ tasks' = [tasks EXCEPT
                               ![i] = Task("running", RecoverAll \/ p.Recover,
                                           1, 0, Nil, FALSE)]
  /\ dispatchIdx' = dispatchIdx + 1
  /\ UNCHANGED <<procVars, runVars, configVars, pidFile, ctxVars, launchPc, hookIdx, launchRes,
                 shutVars, logged>>

\* Launch returns the Err() of its ctx variable, which the loop rebinds to
\* the labelled app context for every process it starts.
LaunchEnd ==
  /\ launchPc = "dispatch"
  /\ dispatchIdx > Len(processes)
  /\ Emit(Event("AppRunning", NoName))
  /\ launchRes' = IF launchCtxApp THEN appCtxErr ELSE parentErr
  /\ launchPc' = "done"
  /\ UNCHANGED <<procVars, runVars, configVars, pidFile, ctxVars, hookIdx, dispatchIdx,
                 launchCtxApp, otherVars>>

----------------------------------------------------------------------------
\* The process tasks

\* What an invocation of Run may return: nil, an error of its own, the
\* cancellation error once the run context is done and, in a task started
\* with recovery, a panic (turned into errProcessPanicked by cleanPanic) or
\* the break signal.
RunOutcomes(i) ==
  {Nil, RunErr(i)}
    \cup (IF appCtxErr # Nil THEN {Canceled} ELSE {})
    \cup (IF tasks[i].recover
           THEN {errProcessPanicked, ErrBreakContextLoop} ELSE {})

shouldExit(ctxErr, err) ==
  ctxErr # Nil \/ err \in {Nil, errProcessPanicked, ErrBreakContextLoop}

\* The function of a task returns err to the error group: the first non-nil
\* error is kept and cancels the group's context.
GroupReturn(err) ==
  /\ egErr' = IF err # Nil /\ egErr = Nil THEN err ELSE egErr
  /\ appCtxErr' =
       IF err # Nil /\ egErr = Nil /\ appCtxErr = Nil
         THEN Canceled ELSE appCtxErr

\* dontRecover: Run returns err, ProcessEnd is emitted, the done channel is
\* closed and err goes to the error group.
RunReturn(i, err) ==
  /\ i \in DOMAIN tasks
  /\ tasks[i].pc = "running"
  /\ ~tasks[i].recover
  /\ err \in RunOutcomes(i)
  /\ tasks' = [tasks EXCEPT ![i].pc = "exited", ![i].ends = @ + 1,
                          ![i].ret = err,
                          ![i].early = (err # Nil /\ shutPc = "none")]
  /\ processRunning' = [processRunning EXCEPT ![i] = "closed"]
  /\ GroupReturn(err)
  /\ UNCHANGED <<procVars, runVars, configVars, pidFile, parentErr, startCtxErr, appCtxMade,
                 launchVars, shutVars, events, logged>>

\* Variant of RecoverReturn: the loop invokes Run again while the previous
\* invocation has not returned.
RecoverReturnOverlap(i, err) ==
  /\ i \in DOMAIN tasks
  /\ tasks[i].pc = "running"
  /\ tasks[i].recover
  /\ err \in RunOutcomes(i)
  /\ IF shouldExit(appCtxErr, err)
       THEN /\ logged' = IF err # Nil THEN logged \cup {err} ELSE logged
            /\ tasks' = [tasks EXCEPT ![i].pc = "exited", ![i].ends = @ + 1,
                                    ![i].ret = appCtxErr]
            /\ processRunning' = [processRunning EXCEPT ![i] = "closed"]
            /\ GroupReturn(appCtxErr)
       ELSE /\ tasks[i].runs < MaxRuns
            /\ tasks' = [tasks EXCEPT ![i].runs = @ + 1]
            /\ UNCHANGED <<logged, processRunning, egErr, appCtxErr>>
  /\ UNCHANGED <<procVars, runVars, configVars, pidFile, parentErr, startCtxErr, appCtxMade,
                 launchVars, shutVars, events>>

\* recover: one iteration of the loop. Run returns err (or panics),
\* ProcessEnd is emitted, and shouldExit decides between invoking Run again
\* and leaving the loop: then the error is logged, the done channel is
\* closed and ctx.Err() goes to the error group.
RecoverReturn(i, err) ==
  /\ i \in DOMAIN tasks
  /\ tasks[i].pc = "running"
  /\ tasks[i].recover
  /\ err \in RunOutcomes(i)
  /\ IF shouldExit(appCtxErr, err)
       THEN /\ logged' = IF err # Nil THEN logged \cup {err} ELSE logged
            /\ tasks' = [tasks EXCEPT ![i].pc = "exited", ![i].ends = @ + 1,
                                    ![i].ret = appCtxErr]
            /\ processRunning' = [processRunning EXCEPT ![i] = "closed"]
            /\ GroupReturn(appCtxErr)
       ELSE /\ tasks[i].runs < MaxRuns
            /\ tasks' = [tasks EXCEPT ![i].runs = @ + 1, ![i].ends = @ + 1]
            /\ UNCHANGED <<logged, processRunning, egErr, appCtxErr>>
  /\ UNCHANGED <<procVars, runVars, configVars, pidFile, parentErr, startCtxErr, appCtxMade,
                 launchVars, shutVars, events>>

\* The names of the processes whose done channel is not closed, in order.
RunningProcesses ==
  LET ids == SelectSeq([i \in Procs |-> i],
                       LAMBDA i : processRunning[i] # "closed")
  IN [k \in 1..Len(ids) |-> processes[ids[k]].Name]

----------------------------------------------------------------------------
\* Shutdown

\* The goroutine Shutdown starts for a process with an explicit Shutdown
\* function: its position, the value it sends next and the error the function
\* returned.
Shut(pc, err, ret) == [pc |-> pc, err |-> err, ret |-> ret]

ToSet(s) == {s[k] : k \in DOMAIN s}

\* ShutdownTimeout elapses while Shutdown runs.
ShutdownDeadline ==
  /\ shutPc \notin {"none", "done"}
  /\ shutCtxErr = Nil
  /\ shutCtxErr' = DeadlineExceeded
  /\ UNCHANGED <<procVars, runVars, configVars, pidFile, ctxVars, launchVars, processRunning,
                 tasks, shutPc, shuts, signalSet, shutCount, collected, errs,
                 shutRes, stopIdx, cleanupErrs, events, logged>>

\* Shutdown up to its first wait: AppTerminating, and one goroutine for every
\* process that has an explicit Shutdown function.
ShutdownBegin ==
  /\ launchPc = "done"
  /\ shutPc = "none"
  /\ Emit(Event("AppTerminating", NoName))
  /\ shuts' = [i \in Procs |->
                IF processes[i].Shutdown # "nil"
                  THEN Shut("spawned", Nil, Nil) ELSE Shut("none", Nil, Nil)]
  /\ shutCount' = Cardinality({i \in Procs : processes[i].Shutdown # "nil"})
  /\ shutPc' = "collect"
  /\ UNCHANGED <<procVars, runVars, configVars, pidFile, ctxVars, launchVars, processRunning,
                 tasks, shutCtxErr, signalSet, collected, errs, shutRes,
                 stopIdx, cleanupErrs, logged>>

\* What p.Shutdown of process i may return when it is called now: nil or an
\* error of its own, a "wait" function only once the signal is set; a "wait"
\* function may also give up with the context's error once Shutdown's
\* context is done.
ShutOutcomes(i) ==
  (IF processes[i].Shutdown = "signal" \/ signalSet
     THEN {Nil, ShutErr(i)} ELSE {})
    \cup (IF processes[i].Shutdown = "wait" /\ shutCtxErr # Nil
           THEN {shutCtxErr} ELSE {})

\* The goroutine after p.Shutdown returned err: what it sends next.
AfterShutdown(err) ==
  IF err # Nil THEN Shut("sendErr", err, err) ELSE Shut("sendNil", Nil, err)

\* The goroutine after the collector received its value.
AfterSend(g) ==
  IF g.pc = "sendErr"
    THEN Shut("sendNil", Nil, g.ret) ELSE Shut("done", Nil, g.ret)

\* Variant of ShutReturn: the explicit Shutdown functions are called one after
\* another, in registration order.
ShutReturnInOrder(i, err) ==
  /\ i \in DOMAIN shuts
  /\ shuts[i].pc = "spawned"
  /\ \A j \in DOMAIN shuts : j < i => shuts[j].pc # "spawned"
  /\ err \in ShutOutcomes(i)
  /\ shuts' = [shuts EXCEPT ![i] = AfterShutdown(err)]
  /\ signalSet' = (signalSet \/ processes[i].Shutdown = "signal")
  /\ UNCHANGED <<procVars, runVars, configVars, pidFile, ctxVars, launchVars, processRunning,
                 tasks, shutPc, shutCtxErr, shutCount, collected,
                 errs, shutRes, stopIdx, cleanupErrs, events, logged>>

\* The goroutine of process i calls p.Shutdown, which returns err; a "signal"
\* function sets the shared signal.
ShutReturn(i, err) ==
  /\ i \in DOMAIN shuts
  /\ shuts[i].pc = "spawned"
  /\ err \in ShutOutcomes(i)
  /\ shuts' = [shuts EXCEPT ![i] = AfterShutdown(err)]
  /\ signalSet' = (signalSet \/ processes[i].Shutdown = "signal")
  /\ UNCHANGED <<procVars, runVars, configVars, pidFile, ctxVars, launchVars, processRunning,
                 tasks, shutPc, shutCtxErr, shutCount, collected,
                 errs, shutRes, stopIdx, cleanupErrs, events, logged>>

\* One iteration of the collecting loop: WaitFor receives the value a
\* goroutine is sending on shutErrs.
ShutRecv(i) ==
  /\ shutPc = "collect"
  /\ collected < shutCount
  /\ i \in DOMAIN shuts
  /\ shuts[i].pc \in {"sendErr", "sendNil"}
  /\ errs' = IF shuts[i].err # Nil THEN Append(errs, shuts[i].err) ELSE errs
  /\ collected' = collected + 1
  /\ shuts' = [shuts EXCEPT ![i] = AfterSend(shuts[i])]
  /\ UNCHANGED <<procVars, runVars, configVars, pidFile, ctxVars, launchVars, processRunning,
                 tasks, shutPc, shutCtxErr, signalSet, shutCount, shutRes,
                 stopIdx, cleanupErrs, events, logged>>

\* Variant of ShutTimeout: Shutdown returns the context's error without
\* running what it deferred.
ShutTimeoutNoDefer ==
  /\ \/ shutPc = "collect" /\ collected < shutCount
     \/ shutPc = "wait"
  /\ shutCtxErr # Nil
  /\ shutRes' = shutCtxErr
  /\ shutPc' = "done"
  /\ UNCHANGED <<procVars, runVars, configVars, pidFile, ctxVars, launchVars, processRunning,
                 tasks, shutCtxErr, shuts, signalSet, shutCount, collected,
                 errs, stopIdx, cleanupErrs, events, logged>>

\* WaitFor returns the context's error, in the collecting loop or while
\* waiting for the error group: Shutdown returns it.
ShutTimeout ==
  /\ \/ shutPc = "collect" /\ collected < shutCount
     \/ shutPc = "wait"
  /\ shutCtxErr # Nil
  /\ shutRes' = shutCtxErr
  /\ shutPc' = "cleanup"
  /\ UNCHANGED <<procVars, runVars, configVars, pidFile, ctxVars, launchVars, processRunning,
                 tasks, shutCtxErr, shuts, signalSet, shutCount, collected,
                 errs, stopIdx, cleanupErrs, events, logged>>

\* After the collecting loop: a.cancel().
ShutCancel ==
  /\ shutPc = "collect"
  /\ collected = shutCount
  /\ appCtxErr' = IF appCtxErr = Nil THEN Canceled ELSE appCtxErr
  /\ shutPc' = "wait"
  /\ UNCHANGED <<procVars, runVars, configVars, pidFile, parentErr, startCtxErr, appCtxMade,
                 egErr, launchVars, processRunning, tasks, shutCtxErr, shuts,
                 signalSet, shutCount, collected, errs, shutRes, stopIdx,
                 cleanupErrs, events, logged>>

TasksExited == \A i \in DOMAIN tasks : tasks[i].pc \in {"none", "exited"}

\* Variant of WithGroupErr: the error group's result is not collected.
WithGroupErrDropped(es, groupErr) == es

\* errs after the error group's result has been looked at.
WithGroupErr(es, groupErr) ==
  IF groupErr # Nil /\ groupErr # Canceled THEN Append(es, groupErr) ELSE es

\* What Shutdown and cleanup do with the collected errors: the first is
\* returned, the others are logged.
FirstErr(es) == IF Len(es) > 0 THEN es[1] ELSE Nil
RestErrs(es) == {es[k] : k \in 2..Len(es)}

\* eg.Wait() returned once every task has exited; the end of Shutdown's body.
ShutGroupDone ==
  /\ shutPc = "wait"
  /\ TasksExited
  /\ LET all == WithGroupErr(errs, egErr)
     IN /\ errs' = all
        /\ logged' = logged \cup RestErrs(all)
        /\ shutRes' = FirstErr(all)
  /\ shutPc' = "cleanup"
  /\ UNCHANGED <<procVars, runVars, configVars, pidFile, ctxVars, launchVars, processRunning,
                 tasks, shutCtxErr, shuts, signalSet, shutCount, collected,
                 stopIdx, cleanupErrs, events>>

\* The deferred cleanup: one iteration of its loop up to the call of the
\* hook. With Shutdown's context done cleanup returns its error at once,
\* Shutdown logs it and emits AppTerminated.
CleanupHookBegin ==
  /\ shutPc = "cleanup"
  /\ stopIdx <= Len(shutdownHooks)
  /\ IF shutCtxErr # Nil
       THEN /\ logged' = logged \cup {shutCtxErr}
            /\ Emit(Event("AppTerminated", NoName))
            /\ shutPc' = "done"
       ELSE /\ Emit(Event("PreHookStop", shutdownHooks[stopIdx].Name))
            /\ shutPc' = "stophook"
            /\ UNCHANGED logged
  /\ UNCHANGED <<procVars, runVars, configVars, pidFile, ctxVars, launchVars, processRunning,
                 tasks, shutCtxErr, shuts, signalSet, shutCount, collected,
                 errs, shutRes, stopIdx, cleanupErrs>>

\* The shutdown hook returns err; the rest of the iteration.
CleanupHookEnd(err) ==
  /\ shutPc = "stophook"
  /\ cleanupErrs' = IF err # Nil THEN Append(cleanupErrs, err) ELSE cleanupErrs
  /\ Emit(Event("PostHookStop", shutdownHooks[stopIdx].Name))
  /\ stopIdx' = stopIdx + 1
  /\ shutPc' = "cleanup"
  /\ UNCHANGED <<procVars, runVars, configVars, pidFile, ctxVars, launchVars, processRunning,
                 tasks, shutCtxErr, shuts, signalSet, shutCount, collected,
                 errs, shutRes, logged>>

\* cleanup after its loop logs all but its first error and returns the
\* first, which Shutdown logs; then AppTerminated.
CleanupEnd ==
  /\ shutPc = "cleanup"
  /\ stopIdx > Len(shutdownHooks)
  /\ logged' = logged \cup ToSet(cleanupErrs)
  /\ Emit(Event("AppTerminated", NoName))
  /\ shutPc' = "done"
  /\ UNCHANGED <<procVars, runVars, configVars, pidFile, ctxVars, launchVars, processRunning,
                 tasks, shutCtxErr, shuts, signalSet, shutCount, collected,
                 errs, shutRes, stopIdx, cleanupErrs>>

----------------------------------------------------------------------------
\* AppContext: the signals and the two contexts

Signals == {"SIGQUIT", "SIGINT", "SIGTERM"}

\* The application context is cancelled, and with it its children: the
\* startup context while startup runs, the run context once Launch made it.
CancelAppContext ==
  /\ parentErr' = IF parentErr = Nil THEN Canceled ELSE parentErr
  /\ startCtxErr' =
       IF launchPc \in {"startup", "hook"} /\ startCtxErr = Nil
         THEN Canceled ELSE startCtxErr
  /\ appCtxErr' = IF appCtxMade /\ appCtxErr = Nil THEN Canceled ELSE appCtxErr

\* The runtime hands signal s to the channel without blocking: a signal that
\* finds the buffer full is lost.
SignalArrives(s) ==
  /\ runPc \notin {"none", "returned"}
  /\ signals' = IF Len(signals) < 1 THEN Append(signals, s) ELSE signals
  /\ UNCHANGED <<procVars, configVars, pidFile, ctxVars, launchVars, otherVars, events,
                 OnShutdownErr, runPc, exit, termCtxErr, handled>>

\* Variant of Monitor: SIGQUIT cancels the termination context as well.
MonitorQuitTerminates ==
  /\ runPc \notin {"none", "returned"}
  /\ signals # <<>>
  /\ Len(handled) < MaxSignals
  /\ signals' = Tail(signals)
  /\ handled' = Append(handled, Head(signals))
  /\ termCtxErr' = Canceled
  /\ CancelAppContext
  /\ UNCHANGED <<procVars, configVars, pidFile, appCtxMade, egErr, launchVars,
                 otherVars, events, OnShutdownErr, runPc, exit>>

\* One iteration of monitor's loop: SIGQUIT calls appCancel, SIGINT and
\* SIGTERM call termCancel, which cancels the application context too.
Monitor ==
  /\ runPc \notin {"none", "returned"}
  /\ signals # <<>>
  /\ Len(handled) < MaxSignals
  /\ signals' = Tail(signals)
  /\ handled' = Append(handled, Head(signals))
  /\ termCtxErr' = IF Head(signals) = "SIGQUIT" THEN termCtxErr ELSE Canceled
  /\ CancelAppContext
  /\ UNCHANGED <<procVars, configVars, pidFile, appCtxMade, egErr, launchVars,
                 otherVars, events, OnShutdownErr, runPc, exit>>

----------------------------------------------------------------------------
\* Run

\* Run creates the AppContext and calls Launch with its application context.
RunBegin ==
  /\ runPc = "none"
  /\ launchPc = "new"
  /\ runPc' = "launch"
  /\ UNCHANGED <<procVars, configVars, pidFile, ctxVars, launchVars, otherVars, events,
                 OnShutdownErr, exit, termCtxErr, signals, handled>>

\* Launch has returned: on an error Run logs it and returns 1, otherwise it
\* waits on WaitForShutdown.
RunLaunched ==
  /\ runPc = "launch"
  /\ launchPc \in {"done", "failed"}
  /\ IF launchRes # Nil
       THEN /\ logged' = logged \cup {launchRes}
            /\ exit' = 1
            /\ runPc' = "returned"
       ELSE /\ runPc' = "waitShutdown"
            /\ UNCHANGED <<logged, exit>>
  /\ UNCHANGED <<procVars, configVars, pidFile, ctxVars, launchVars, processRunning,
                 tasks, shutVars, events, OnShutdownErr, termCtxErr, signals,
                 handled>>

\* The run context is done: Run calls Shutdown.
RunWaitForShutdown ==
  /\ runPc = "waitShutdown"
  /\ appCtxErr # Nil
  /\ runPc' = "shutdown"
  /\ UNCHANGED <<procVars, configVars, pidFile, ctxVars, launchVars, otherVars, events,
                 OnShutdownErr, exit, termCtxErr, signals, handled>>

handleShutdownErr(err) ==
  IF err # DeadlineExceeded THEN err
  ELSE IF RunningProcesses = <<>> THEN err
  ELSE IF termCtxErr # Nil THEN errProcessStillRunning(RunningProcesses)
  ELSE IF OnShutdownErr = "toNil" THEN Nil
  ELSE errProcessStillRunning(RunningProcesses)

\* Shutdown has returned: a non-nil error goes through handleShutdownErr, is
\* logged and sets exit; the pid file is removed; Run waits for termination.
RunShutdownReturned ==
  /\ runPc = "shutdown"
  /\ shutPc = "done"
  /\ IF shutRes # Nil
       THEN /\ logged' =
                 IF handleShutdownErr(shutRes) # Nil
                   THEN logged \cup {handleShutdownErr(shutRes)} ELSE logged
            /\ exit' = 1
       ELSE UNCHANGED <<logged, exit>>
  /\ pidFile' = IF UseProcessFile THEN FALSE ELSE pidFile
  /\ runPc' = "waitTerm"
  /\ UNCHANGED <<procVars, configVars, ctxVars, launchVars, processRunning, tasks,
                 shutVars, events, OnShutdownErr, termCtxErr, signals,
                 handled>>

\* Variant of RunTerminated: Run returns without waiting for the termination
\* context.
RunTerminatedNoWait ==
  /\ runPc = "waitTerm"
  /\ runPc' = "returned"
  /\ UNCHANGED <<procVars, configVars, pidFile, ctxVars, launchVars, otherVars, events,
                 OnShutdownErr, exit, termCtxErr, signals, handled>>

\* The termination context is done: Run returns exit.
RunTerminated ==
  /\ runPc = "waitTerm"
  /\ termCtxErr # Nil
  /\ runPc' = "returned"
  /\ UNCHANGED <<procVars, configVars, pidFile, ctxVars, launchVars, otherVars, events,
                 OnShutdownErr, exit, termCtxErr, signals, handled>>

----------------------------------------------------------------------------
\* Package process: the loops of loop.go and their options (options.go)

\* Bounds of the loop model.
MaxCalls == 4
MaxMaxErrors == 2

NoRet == [k |-> "none", i |-> 0]
\* An error of the unit of work, an error of the context provider and an
\* error a context is cancelled with (context.WithCancelCause).
UnitErr == [k |-> "unit", i |-> 0]
ProviderErr == [k |-> "getCtx", i |-> 0]
CauseErr == [k |-> "cause", i |-> 0]

\* errors.Is and errors.IsAny on the error values of the model.
Is(err, target) == err = target

\* SleepFor(dur) and ErrorSleepFor(dur): the same duration every time.
SleepFor(dur) == dur
ErrorSleepFor(dur, count) == dur

\* The ErrorSleepFunc MakeErrorSleepFunc(r, d, backoff) returns, applied
\* to errCount. Sequences are indexed from 1, slices from 0. The counts of
\* the model are far below the width of uint and int.
MakeErrorSleepFuncNoClamp(r, d, backoff, count) ==
  IF count <= r THEN 0
  ELSE IF Len(backoff) = 0 THEN d
  ELSE LET backoffIdx == (count - 1) - r
           wrapped == backoffIdx % Len(backoff)
       IN d * backoff[wrapped + 1]

MakeErrorSleepFunc(r, d, backoff, count) ==
  IF count <= r THEN 0
  ELSE IF Len(backoff) = 0 THEN d
  ELSE LET idx0 == count - 1
           idx1 == IF r > 0 THEN idx0 - r ELSE idx0
           backoffIdx == IF idx1 >= Len(backoff) THEN Len(backoff) - 1
                         ELSE idx1
       IN d * backoff[backoffIdx + 1]

DefaultBackoff == <<1, 2, 5, 10, 20, 50, 100>>

\* The error sleep of defaultLoopOptions, in seconds.
DefaultErrorSleep == 10

\* opts.sleep() and opts.errorSleep(count, err) for the options of the model:
\* errorSleep is ErrorSleepFor or a MakeErrorSleepFunc with one retry.
OptsSleep == SleepFor(opts.sleep)
OptsErrorSleep(count) ==
  IF opts.errorSleep = "for" THEN ErrorSleepFor(DefaultErrorSleep, count)
  ELSE MakeErrorSleepFunc(1, DefaultErrorSleep, DefaultBackoff, count)

Sleep(by, n, d) == [by |-> by, n |-> n, d |-> d]

LoopState(pc) ==
  /\ loopPc = pc
  /\ errCount = 0
  /\ loopCtxErr = Nil
  /\ loopCtxCause = Nil
  /\ runCtxErr = Nil
  /\ runCtxCause = Nil
  /\ loopRet = NoRet
  /\ calls = <<>>
  /\ sleeps = <<>>
  /\ waitRes = NoRet
  /\ errCounter = 0

LoopIdle ==
  /\ loopKind = "loop"
  /\ opts = [maxErrors |-> 0, isBreakableLoop |-> FALSE, sleep |-> 0,
             errorSleep |-> "for"]
  /\ LoopState("none")

\* The arguments of MakeErrorSleepFunc and the error count the function it
\* returns is called with, and the call.
MaxRetryCount == 2
MaxBackoffLen == 3
MaxErrCount == 6
Durations == {1, 10}
Multipliers == {1, 2, 5}
Backoffs == UNION {[1..n -> Multipliers] : n \in 0..MaxBackoffLen}

SleepFuncIdle ==
  /\ esArgs = [r |-> 0, d |-> 0, backoff |-> <<>>, errCount |-> 1]
  /\ esResult = <<>>
  /\ fnArgs = <<>>
  /\ fnResult = <<>>

ApplyErrorSleep ==
  /\ esResult = <<>>
  /\ esResult' = <<MakeErrorSleepFunc(esArgs.r, esArgs.d, esArgs.backoff,
                                      esArgs.errCount)>>
  /\ UNCHANGED <<appVars, loopVars, schedVars, esArgs, fnArgs, fnResult>>

\* The context Run was called with ends: cancelled, with or without a cause,
\* or past its deadline. The context of the current run is its child.
EndLoopCtx(err, cause) ==
  /\ loopPc \in {"top", "getCtx", "f", "wait"}
  /\ loopCtxErr = Nil
  /\ loopCtxErr' = err
  /\ loopCtxCause' = cause
  /\ IF loopPc \in {"f", "wait"} /\ runCtxErr = Nil
       THEN runCtxErr' = err /\ runCtxCause' = cause
       ELSE UNCHANGED <<runCtxErr, runCtxCause>>
  /\ UNCHANGED <<appVars, sleepFuncVars, schedVars, loopKind, opts, loopPc,
                 errCount, loopRet, calls, sleeps, waitRes, errCounter>>

\* The context of the current run ends on its own (the role is lost).
EndRunCtx(err) ==
  /\ loopPc \in {"f", "wait"}
  /\ runCtxErr = Nil
  /\ runCtxErr' = err
  /\ runCtxCause' = err
  /\ UNCHANGED <<appVars, sleepFuncVars, schedVars, loopKind, opts, loopPc,
                 errCount, loopCtxErr, loopCtxCause, loopRet, calls, sleeps,
                 waitRes, errCounter>>

\* The head of the for loop and the return after it.
LoopTop ==
  /\ loopPc = "top"
  /\ IF loopCtxErr = Nil
       THEN loopPc' = "getCtx" /\ UNCHANGED loopRet
       ELSE loopPc' = "done" /\ loopRet' = loopCtxErr
  /\ UNCHANGED <<appVars, sleepFuncVars, schedVars, loopKind, opts, errCount,
                 loopCtxErr, loopCtxCause, runCtxErr, runCtxCause, calls,
                 sleeps, waitRes, errCounter>>

\* What the loop does with the error of runWithContext. ContextLoop ends on
\* the break signal and on every error but context.Canceled; ContextRetry
\* ends when there is no error.
IterationEndOnce(err) ==
  IF loopKind = "retry"
    THEN loopPc' = "done" /\ loopRet' = loopCtxErr
    ELSE IF Is(err, ErrBreakContextLoop)
           THEN loopPc' = "done" /\ loopRet' = Nil
           ELSE IF err # Nil /\ ~Is(err, Canceled)
                  THEN loopPc' = "done" /\ loopRet' = err
                  ELSE loopPc' = "top" /\ UNCHANGED loopRet

IterationEnd(err) ==
  IF loopKind = "retry"
    THEN IF err = Nil
           THEN loopPc' = "done" /\ loopRet' = loopCtxErr
           ELSE loopPc' = "top" /\ UNCHANGED loopRet
    ELSE IF Is(err, ErrBreakContextLoop)
           THEN loopPc' = "done" /\ loopRet' = Nil
           ELSE IF err # Nil /\ ~Is(err, Canceled)
                  THEN loopPc' = "done" /\ loopRet' = err
                  ELSE loopPc' = "top" /\ UNCHANGED loopRet

\* runWithContext: getCtx returns a context for the run, or an error, which
\* runWithContext returns to the loop at once.
GetCtxReturns(err) ==
  /\ loopPc = "getCtx"
  /\ IF err = Nil
       THEN /\ Len(calls) < MaxCalls
            /\ loopPc' = "f"
            /\ runCtxErr' = loopCtxErr
            /\ runCtxCause' = loopCtxCause
            /\ UNCHANGED loopRet
       ELSE /\ IterationEnd(err)
            /\ UNCHANGED <<runCtxErr, runCtxCause>>
  /\ UNCHANGED <<appVars, sleepFuncVars, schedVars, loopKind, opts, errCount,
                 loopCtxErr, loopCtxCause, calls, sleeps, waitRes, errCounter>>

\* lu.Wait(ctx, clock, d) with the context of the run: it returns ctx.Err()
\* at once when d <= 0, and waits for the timer or for the context otherwise.
\* after is what the function of the run returns when Wait returned nil.
Wait(by, n, d, after) ==
  /\ sleeps' = Append(sleeps, Sleep(by, n, d))
  /\ IF d <= 0
       THEN /\ waitRes' = runCtxErr
            /\ IterationEnd(IF runCtxErr # Nil THEN runCtxErr ELSE after)
       ELSE /\ loopPc' = "wait"
            /\ UNCHANGED <<waitRes, loopRet>>

\* The unit of work returns err to ContextLoop or to ContextRetry; the
\* action ends where lu.Wait blocks or where the loop takes the error of the
\* run.
UnitReturns(err) ==
  /\ loopPc = "f"
  /\ err = Canceled => runCtxErr # Nil
  /\ calls' = Append(calls, err)
  /\ IF loopKind = "loop"
       THEN IF opts.isBreakableLoop /\ Is(err, ErrBreakContextLoop)
              THEN /\ IterationEnd(err)
                   /\ UNCHANGED <<errCount, errCounter, sleeps, waitRes>>
              ELSE IF err # Nil /\ ~Is(err, Canceled)
                     THEN /\ errCount' = errCount + 1
                          /\ errCounter' = errCounter + 1
                          /\ IF opts.maxErrors > 0
                                 /\ errCount' >= opts.maxErrors
                               THEN /\ IterationEnd(err)
                                    /\ UNCHANGED <<sleeps, waitRes>>
                               ELSE Wait("errorSleep", errCount',
                                         OptsErrorSleep(errCount'), Nil)
                     ELSE /\ errCount' = 0
                          /\ UNCHANGED errCounter
                          /\ Wait("sleep", 0, OptsSleep, Nil)
       ELSE IF err = Nil
              THEN /\ IterationEnd(Nil)
                   /\ UNCHANGED <<errCount, errCounter, sleeps, waitRes>>
              ELSE /\ errCount' = errCount + 1
                   /\ errCounter' = IF Is(err, Canceled) THEN errCounter
                                    ELSE errCounter + 1
                   /\ Wait("errorSleep", errCount',
                           OptsErrorSleep(errCount'), err)
  /\ UNCHANGED <<appVars, sleepFuncVars, schedVars, loopKind, opts,
                 loopCtxErr, loopCtxCause, runCtxErr, runCtxCause>>

\* lu.Wait returns: WaitFor received from the timer, or the context of the
\* run was done and WaitFor returned its Err(). ContextLoop returns nil
\* after the wait, ContextRetry the error of the unit of work, which
\* the pending wait shows is not nil.
WaitReturnsKept(err) ==
  /\ loopPc = "wait"
  /\ err # Nil => err = runCtxErr
  /\ waitRes' = err
  /\ IF err # Nil /\ loopKind = "loop"
       THEN loopPc' = "done" /\ loopRet' = err
       ELSE IterationEnd(IF err # Nil THEN err
                         ELSE IF loopKind = "retry" THEN calls[Len(calls)]
                         ELSE Nil)
  /\ UNCHANGED <<appVars, sleepFuncVars, schedVars, loopKind, opts, errCount,
                 loopCtxErr, loopCtxCause, runCtxErr, runCtxCause, calls,
                 sleeps, errCounter>>

WaitReturns(err) ==
  /\ loopPc = "wait"
  /\ err # Nil => err = runCtxErr
  /\ waitRes' = err
  /\ IterationEnd(IF err # Nil THEN err
                  ELSE IF loopKind = "retry" THEN calls[Len(calls)]
                  ELSE Nil)
  /\ UNCHANGED <<appVars, sleepFuncVars, schedVars, loopKind, opts, errCount,
                 loopCtxErr, loopCtxCause, runCtxErr, runCtxCause, calls,
                 sleeps, errCounter>>


----------------------------------------------------------------------------
\* Package process: Scheduled and its schedules (schedule.go)

\* Bounds of the scheduler model, in seconds: the instant the clock starts
\* at, how far it moves, the error count and the length of a day.
StartClock == 8
MaxClock == 6
MaxSchedErrors == 3
DayLen == 4

\* time.Time: the zero Time, or the instant u seconds after the start of
\* the clock. Instants are whole seconds, so Unix() loses nothing.
ZeroTime == [zero |-> TRUE, unix |-> 0]
TimeAt(u) == [zero |-> FALSE, unix |-> u]

\* time.Truncate: t rounded down to a multiple of d.
Truncate(t, d) == IF d <= 0 THEN t ELSE t - (t % d)

\* The zero Time as an instant: time.Time{} lies 62135596800 seconds before
\* the Unix epoch, counted here in minutes, the unit of a cron schedule.
ZeroUnix == -1035593280

\* The look-back cap of cronWithPrevious.Previous, 1000 days in minutes.
maxLookBack == 1440000

\* The earliest instant of a set of instants.
Earliest(S) == CHOOSE x \in S : \A y \in S : x <= y

\* The schedules: Every(period, WithOffset(offset)), Poll(wait), TimeOfDay,
\* the time of day being offset units after midnight, ParseCron, a cron
\* expression firing at the minutes m with m % period in fires (the firings
\* of a cron expression repeat: every hour, day, week, leap year), and
\* ToTimezone(s, tz), tz being the offset of the zone from the zone of the
\* instants given to Next.
Every(period, offset) ==
  [kind |-> "interval", period |-> period, offset |-> offset]
Poll(wait) == [kind |-> "wait", period |-> wait, offset |-> 0]
TimeOfDay(at) == [kind |-> "timeOfDay", period |-> DayLen, offset |-> at]
ParseCron(period, fires) ==
  [kind |-> "cron", period |-> period, offset |-> 0, fires |-> fires]
ToTimezone(s, tz) ==
  [kind |-> "tz", period |-> s.period, offset |-> s.offset, inner |-> s,
   tz |-> tz]

intervalScheduleNext(s, t) ==
  LET nxt == Truncate(t, s.period) + s.offset
  IN IF ~(nxt > t) THEN nxt + s.period ELSE nxt

\* Variant of intervalSchedulePrevious: the truncated instant as it is.
intervalSchedulePreviousTrunc(s, now) == Truncate(now, s.period) + s.offset

intervalSchedulePrevious(s, now) ==
  LET prev == Truncate(now, s.period) + s.offset
  IN IF prev > now THEN prev - s.period ELSE prev

waitScheduleNext(s, t) == t + s.period

\* Variant of timeOfDayScheduleNext: today's instant also when it is t.
timeOfDayScheduleNextAtOrAfter(s, t, loc) ==
  LET ti == Truncate(t + loc, DayLen) + s.offset - loc
  IN IF ti >= t THEN ti ELSE ti + DayLen

\* time.Date builds the instant from the day of t in the location of t,
\* which is loc units ahead of the zone the instants are counted in.
timeOfDayScheduleNext(s, t, loc) ==
  LET ti == Truncate(t + loc, DayLen) + s.offset - loc
  IN IF ti > t THEN ti ELSE ti + DayLen

\* cron.Schedule.Next: the first firing after t, the zero Time when the
\* expression never fires.
cronScheduleNext(s, t) ==
  IF s.fires = {} THEN ZeroUnix
  ELSE LET base == t - (t % s.period)
           near == {base + f : f \in s.fires}
                     \cup {base + s.period + f : f \in s.fires}
       IN Earliest({c \in near : c > t})

\* Variant of lookBackLoop: one look back, without doubling.
lookBackLoopOnce(s, nxt, lookBack) ==
  LET prev == cronScheduleNext(s, nxt - lookBack)
  IN [found |-> prev # nxt, prev |-> prev]

\* The first loop of cronWithPrevious.Previous: the look-back doubles until
\* a firing before nxt is found or the cap is passed.
RECURSIVE lookBackLoop(_, _, _)
lookBackLoop(s, nxt, lookBack) ==
  IF lookBack > maxLookBack THEN [found |-> FALSE, prev |-> nxt]
  ELSE LET prev == cronScheduleNext(s, nxt - lookBack)
       IN IF prev = nxt THEN lookBackLoop(s, nxt, lookBack * 2)
          ELSE [found |-> TRUE, prev |-> prev]

\* The second loop: prev, t = t, c.Next(prev) until t is nxt.
RECURSIVE scanLoop(_, _, _, _)
scanLoop(s, nxt, prev, t) ==
  IF t = nxt THEN prev ELSE scanLoop(s, nxt, t, cronScheduleNext(s, prev))

cronWithPreviousPrevious(s, now) ==
  LET nxt == cronScheduleNext(s, now)
      back == lookBackLoop(s, nxt, 10)
  IN IF back.found THEN scanLoop(s, nxt, back.prev, back.prev) ELSE now

\* Next of a schedule that is no wrapper, for an instant in location loc.
ScheduleNextIn(s, t, loc) ==
  CASE s.kind = "interval" -> intervalScheduleNext(s, t)
    [] s.kind = "wait" -> waitScheduleNext(s, t)
    [] s.kind = "timeOfDay" -> timeOfDayScheduleNext(s, t, loc)
    [] s.kind = "cron" -> cronScheduleNext(s, t)

\* tzSchedule.Next: the wrapped schedule sees the instant in the zone tz.
tzScheduleNext(s, t) == ScheduleNextIn(s.inner, t, s.tz)

ScheduleNext(s, t) ==
  IF s.kind = "tz" THEN tzScheduleNext(s, t) ELSE ScheduleNextIn(s, t, 0)

\* Whether the schedule implements previousAware.
previousAware(s) == s.kind \in {"interval", "cron"}

SchedulePrevious(s, now) ==
  IF s.kind = "cron" THEN cronWithPreviousPrevious(s, now)
  ELSE intervalSchedulePrevious(s, now)

\* Variant of nextExecution: always the next instant after now.
nextExecutionFromNow(now, last, s) == ScheduleNext(s, now)

\* Variant of nextExecution: without the expected last run.
nextExecutionFromLast(now, last, s) ==
  LET fromNow == ScheduleNext(s, now)
  IN IF last.zero THEN fromNow
     ELSE LET fromLast == ScheduleNext(s, last.unix)
          IN IF fromLast < fromNow THEN fromLast ELSE fromNow

nextExecution(now, last, s) ==
  LET fromNow == ScheduleNext(s, now)
  IN IF last.zero THEN fromNow
     ELSE IF previousAware(s) /\ last.unix # SchedulePrevious(s, now)
            THEN SchedulePrevious(s, now)
            ELSE LET fromLast == ScheduleNext(s, last.unix)
                 IN IF fromLast < fromNow THEN fromLast ELSE fromNow

\* strconv.FormatInt(n, 10) and strconv.ParseInt(s, 10, 64) for n >= 0: a
\* string is the sequence of its decimal digits.
RECURSIVE FormatInt(_)
FormatInt(n) ==
  IF n < 10 THEN <<n>> ELSE Append(FormatInt(n \div 10), n % 10)

RECURSIVE ParseInt(_)
ParseInt(s) ==
  IF Len(s) = 1 THEN s[1]
  ELSE 10 * ParseInt(SubSeq(s, 1, Len(s) - 1)) + s[Len(s)]

\* getLastRun with a cursor that returns no error.
getLastRun(val) == IF val = <<>> THEN ZeroTime ELSE TimeAt(ParseInt(val))

\* The string setRunDone stores for the instant t.
setRunDone(t) == FormatInt(t)

\* The run ID doNext builds: the digits after the name and "_".
runID(t) == FormatInt(t)

NoFailed == [due |-> 0, id |-> <<>>, last |-> ZeroTime, set |-> FALSE]

SchedState(pc) ==
  /\ schedPc = pc
  /\ clockNow = StartClock
  /\ cursor = <<>>
  /\ ErrCount = 0
  /\ lastDone = ZeroTime
  /\ next = 0
  /\ wakeAt = 0
  /\ schedCtxErr = Nil
  /\ schedCtxCause = Nil
  /\ schedRet = NoRet
  /\ gaveUp = FALSE
  /\ roleCtxErr = Nil
  /\ doneRuns = {}
  /\ failed = NoFailed

SchedIdle ==
  /\ schedOpts = [when |-> Poll(1), maxErrors |-> 0, errorSleep |-> 0]
  /\ SchedState("none")

\* The clock moves forward.
Tick ==
  /\ schedPc # "none"
  /\ clockNow < StartClock + MaxClock
  /\ clockNow' = clockNow + 1
  /\ UNCHANGED <<appVars, loopVars, sleepFuncVars, schedOpts, cursor,
                 ErrCount, schedPc, lastDone, next, wakeAt, schedCtxErr,
                 schedCtxCause, schedRet, gaveUp, roleCtxErr, doneRuns,
                 failed>>

\* The context of the process ends, cancelled, with or without a cause, or
\* past its deadline, and the context of the role, its child, with it.
EndSchedCtx(err, cause) ==
  /\ schedPc \in {"top", "awaitRole", "waitUntil", "f", "sleep"}
  /\ schedCtxErr = Nil
  /\ schedCtxErr' = err
  /\ schedCtxCause' = cause
  /\ roleCtxErr' = IF schedPc \in {"waitUntil", "f"} /\ roleCtxErr = Nil
                     THEN err ELSE roleCtxErr
  /\ UNCHANGED <<appVars, loopVars, sleepFuncVars, schedOpts, clockNow,
                 cursor, ErrCount, schedPc, lastDone, next, wakeAt, doneRuns,
                 failed, schedRet, gaveUp>>

\* The context awaitRole returned is cancelled: the role is lost.
EndRoleCtx ==
  /\ schedPc \in {"waitUntil", "f"}
  /\ roleCtxErr = Nil
  /\ roleCtxErr' = Canceled
  /\ UNCHANGED <<appVars, loopVars, sleepFuncVars, schedOpts, clockNow,
                 cursor, ErrCount, schedPc, lastDone, next, wakeAt,
                 schedCtxErr, schedCtxCause, schedRet, gaveUp, doneRuns,
                 failed>>

\* The process is stopped where it is and started again: a new
\* scheduleRunner with the same cursor store.
Restart ==
  /\ schedPc \in {"awaitRole", "waitUntil", "f", "sleep", "done"}
  /\ schedPc' = "top"
  /\ ErrCount' = 0
  /\ schedCtxErr' = Nil
  /\ schedCtxCause' = Nil
  /\ schedRet' = NoRet
  /\ gaveUp' = FALSE
  /\ roleCtxErr' = Nil
  /\ failed' = NoFailed
  /\ UNCHANGED <<appVars, loopVars, sleepFuncVars, schedOpts, clockNow,
                 cursor, lastDone, next, wakeAt, doneRuns>>

\* The head of the for loop of processLoop and the return after it.
SchedTop ==
  /\ schedPc = "top"
  /\ schedPc' = IF schedCtxErr = Nil THEN "awaitRole" ELSE "done"
  /\ schedRet' = IF schedCtxErr = Nil THEN schedRet ELSE schedCtxCause
  /\ UNCHANGED <<appVars, loopVars, sleepFuncVars, schedOpts, clockNow,
                 cursor, ErrCount, lastDone, next, wakeAt, schedCtxErr,
                 schedCtxCause, gaveUp, roleCtxErr, doneRuns, failed>>

\* Variant of processOnceEnd: the error count is kept when the iteration did
\* not fail.
processOnceEndKeepCount(err) ==
  LET counted == err # Nil /\ ~Is(err, Canceled)
      sleep == IF counted THEN schedOpts.errorSleep ELSE 0
  IN /\ counted => ErrCount < MaxSchedErrors
     /\ ErrCount' = IF counted THEN ErrCount + 1 ELSE ErrCount
     /\ IF sleep <= 0
          THEN /\ schedPc' = IF schedCtxErr = Nil THEN "top" ELSE "done"
               /\ schedRet' = IF schedCtxErr = Nil THEN schedRet
                               ELSE schedCtxErr
               /\ UNCHANGED wakeAt
          ELSE /\ schedPc' = "sleep"
               /\ wakeAt' = clockNow + sleep
               /\ UNCHANGED schedRet

\* The rest of processOnce once runWithContext returned err, and the wait
\* of processLoop with the sleep processOnce returned, up to where it blocks.
processOnceEnd(err) ==
  LET counted == err # Nil /\ ~Is(err, Canceled)
      sleep == IF counted THEN schedOpts.errorSleep ELSE 0
  IN /\ counted => ErrCount < MaxSchedErrors
     /\ ErrCount' = IF counted THEN ErrCount + 1 ELSE 0
     /\ IF sleep <= 0
          THEN /\ schedPc' = IF schedCtxErr = Nil THEN "top" ELSE "done"
               /\ schedRet' = IF schedCtxErr = Nil THEN schedRet
                               ELSE schedCtxErr
               /\ UNCHANGED wakeAt
          ELSE /\ schedPc' = "sleep"
               /\ wakeAt' = clockNow + sleep
               /\ UNCHANGED schedRet

\* awaitRole's ContextFunc returns. With an error processOnce counts it;
\* with a context doNext reads the cursor and computes the due instant,
\* marks it done when the errors reached maxErrors, and otherwise waits
\* until it, which returns at once when it is not in the future.
AwaitRoleReturns(err) ==
  /\ schedPc = "awaitRole"
  /\ IF err # Nil
       THEN /\ processOnceEnd(err)
            /\ gaveUp' = FALSE
            /\ UNCHANGED <<lastDone, next, cursor, roleCtxErr, failed>>
       ELSE /\ roleCtxErr' = schedCtxErr
            /\ lastDone' = getLastRun(cursor)
            /\ next' = nextExecution(clockNow, lastDone', schedOpts.when)
            /\ IF schedOpts.maxErrors > 0 /\ ErrCount >= schedOpts.maxErrors
                 THEN /\ cursor' = setRunDone(next')
                      /\ failed' = NoFailed
                      /\ gaveUp' = TRUE
                      /\ processOnceEnd(Nil)
                 ELSE /\ UNCHANGED <<cursor, failed>>
                      /\ gaveUp' = FALSE
                      /\ IF next' - clockNow <= 0
                           THEN IF roleCtxErr' = Nil
                                  THEN /\ schedPc' = "f"
                                       /\ UNCHANGED <<ErrCount, wakeAt,
                                                      schedRet>>
                                  ELSE processOnceEnd(roleCtxErr')
                           ELSE /\ schedPc' = "waitUntil"
                                /\ UNCHANGED <<ErrCount, wakeAt, schedRet>>
  /\ UNCHANGED <<appVars, loopVars, sleepFuncVars, schedOpts, clockNow,
                 schedCtxErr, schedCtxCause, doneRuns>>

\* Variant of WaitUntilReturns: the timer fires at any time.
WaitUntilReturnsEarly(err) ==
  /\ schedPc = "waitUntil"
  /\ err # Nil => err = roleCtxErr
  /\ IF err = Nil
       THEN schedPc' = "f" /\ UNCHANGED <<ErrCount, wakeAt, schedRet>>
       ELSE processOnceEnd(err)
  /\ UNCHANGED <<appVars, loopVars, sleepFuncVars, schedOpts, clockNow,
                 cursor, lastDone, next, schedCtxErr, schedCtxCause, gaveUp,
                 roleCtxErr, doneRuns, failed>>

\* lu.WaitUntil returns in doNext: nil once the clock reached the due
\* instant, after which the ScheduledFunc is called, or the Err() of the
\* context of the role.
WaitUntilReturns(err) ==
  /\ schedPc = "waitUntil"
  /\ err = Nil => clockNow >= next
  /\ err # Nil => err = roleCtxErr
  /\ IF err = Nil
       THEN schedPc' = "f" /\ UNCHANGED <<ErrCount, wakeAt, schedRet>>
       ELSE processOnceEnd(err)
  /\ UNCHANGED <<appVars, loopVars, sleepFuncVars, schedOpts, clockNow,
                 cursor, lastDone, next, schedCtxErr, schedCtxCause, gaveUp,
                 roleCtxErr, doneRuns, failed>>

\* The ScheduledFunc returns err for the due instant next.
FuncReturns(err) ==
  /\ schedPc = "f"
  /\ err = Canceled => roleCtxErr # Nil
  /\ IF err = Nil
       THEN /\ cursor' = setRunDone(next)
            /\ doneRuns' = doneRuns \cup {next}
            /\ failed' = NoFailed
       ELSE /\ failed' = [due |-> next, id |-> runID(next),
                          last |-> lastDone, set |-> TRUE]
            /\ UNCHANGED <<cursor, doneRuns>>
  /\ processOnceEnd(err)
  /\ UNCHANGED <<appVars, loopVars, sleepFuncVars, schedOpts, clockNow,
                 lastDone, next, schedCtxErr, schedCtxCause, gaveUp,
                 roleCtxErr>>

\* The wait of processLoop returns: nil once the sleep is over, or the
\* Err() of the context of the process, which processLoop returns.
SleepReturns(err) ==
  /\ schedPc = "sleep"
  /\ err = Nil => clockNow >= wakeAt
  /\ err # Nil => err = schedCtxErr
  /\ schedPc' = IF err = Nil THEN "top" ELSE "done"
  /\ schedRet' = IF err = Nil THEN schedRet ELSE err
  /\ UNCHANGED <<appVars, loopVars, sleepFuncVars, schedOpts, clockNow,
                 cursor, ErrCount, lastDone, next, wakeAt, schedCtxErr,
                 schedCtxCause, gaveUp, roleCtxErr, doneRuns, failed>>


----------------------------------------------------------------------------
\* The specification

\* The state of a new App, whatever its exported fields are set to.
InitState ==
  /\ runPc = "none"
  /\ exit = 0
  /\ termCtxErr = Nil
  /\ signals = <<>>
  /\ handled = <<>>
  /\ startupHooks = <<>>
  /\ shutdownHooks = <<>>
  /\ processes = <<>>
  /\ processRunning = <<>>
  /\ parentErr = Nil
  /\ startCtxErr = Nil
  /\ appCtxErr = Nil
  /\ appCtxMade = FALSE
  /\ egErr = Nil
  /\ launchPc = "new"
  /\ hookIdx = 1
  /\ dispatchIdx = 1
  /\ launchCtxApp = FALSE
  /\ launchRes = Nil
  /\ tasks = <<>>
  /\ shutPc = "none"
  /\ shutCtxErr = Nil
  /\ shuts = <<>>
  /\ signalSet = FALSE
  /\ shutCount = 0
  /\ collected = 0
  /\ errs = <<>>
  /\ shutRes = Nil
  /\ stopIdx = 1
  /\ cleanupErrs = <<>>
  /\ events = <<>>
  /\ logged = {}

\* No loop of package process runs beside the application.
ProcIdle == LoopIdle /\ SleepFuncIdle /\ SchedIdle

Init ==
  /\ RecoverAll \in BOOLEAN
  /\ UseProcessFile \in BOOLEAN
  /\ pidFile = UseProcessFile
  /\ OnShutdownErr = "nil"
  /\ InitState
  /\ ProcIdle

ProcIds == 1..MaxProcs

\* The processes AddProcess is called with: with or without a Run function,
\* with or without recovery, with each kind of explicit Shutdown function.
ProcessKinds ==
  {<<FALSE, "signal", FALSE>>, <<FALSE, "wait", FALSE>>,
   <<TRUE, "nil", FALSE>>, <<TRUE, "nil", TRUE>>,
   <<TRUE, "signal", FALSE>>, <<TRUE, "wait", FALSE>>}

Next ==
  \/ \E p \in Priorities : OnStartUp(p)
  \/ \E p \in Priorities : OnShutdown(p)
  \/ \E k \in ProcessKinds : AddProcess(k[1], k[2], k[3])
  \/ StartupDeadline
  \/ LaunchBegin
  \/ StartupHookBegin
  \/ \E err \in {Nil, HookErr(hookIdx)} : StartupHookEnd(err)
  \/ StartupEnd
  \/ Dispatch
  \/ LaunchEnd
  \/ \E i \in ProcIds : \E err \in {Nil, Canceled, RunErr(i)} : RunReturn(i, err)
  \/ \E i \in ProcIds :
       \E err \in {Nil, Canceled, RunErr(i), errProcessPanicked,
                    ErrBreakContextLoop} : RecoverReturn(i, err)
  \/ ShutdownDeadline
  \/ ShutdownBegin
  \/ \E i \in ProcIds :
       \E err \in {Nil, DeadlineExceeded, ShutErr(i)} : ShutReturn(i, err)
  \/ \E i \in ProcIds : ShutRecv(i)
  \/ ShutTimeout
  \/ ShutCancel
  \/ ShutGroupDone
  \/ CleanupHookBegin
  \/ \E err \in {Nil, HookErr(stopIdx)} : CleanupHookEnd(err)
  \/ CleanupEnd

Spec == Init /\ [][Next]_vars

\* Hooks registered with every priority, in an application without
\* processes that is launched and shut down within its deadlines.
AllPriorities == {HookPriorityFirst, HookPriorityDefault, HookPriorityLast}

HookInit == Init /\ RecoverAll = FALSE /\ UseProcessFile = FALSE

HookNext ==
  \/ \E p \in AllPriorities : OnStartUp(p)
  \/ \E p \in AllPriorities : OnShutdown(p)
  \/ LaunchBegin
  \/ StartupHookBegin
  \/ StartupHookEnd(Nil)
  \/ StartupEnd
  \/ LaunchEnd
  \/ ShutdownBegin
  \/ ShutCancel
  \/ ShutGroupDone
  \/ CleanupHookBegin
  \/ CleanupHookEnd(Nil)
  \/ CleanupEnd

HookSpec == HookInit /\ [][HookNext]_vars

\* An application driven by Run: it is configured, then Run launches it,
\* waits for the run context to end, shuts it down and waits for the
\* termination context, while signals arrive.
RunInit ==
  /\ RecoverAll = FALSE
  /\ UseProcessFile \in BOOLEAN
  /\ pidFile = FALSE
  /\ OnShutdownErr \in {"nil", "toNil", "same"}
  /\ InitState
  /\ ProcIdle

RunProcessKinds == {<<TRUE, "nil", FALSE>>, <<TRUE, "signal", FALSE>>}

RunNext ==
  \/ /\ runPc = "none"
     /\ \/ Len(startupHooks) < MaxRunHooks /\ OnStartUp(HookPriorityDefault)
        \/ Len(shutdownHooks) < MaxRunHooks /\ OnShutdown(HookPriorityDefault)
        \/ /\ Len(processes) < MaxRunProcs
           /\ \E k \in RunProcessKinds : AddProcess(k[1], k[2], k[3])
  \/ RunBegin
  \/ /\ runPc = "launch"
     /\ \/ StartupDeadline
        \/ LaunchBegin
        \/ StartupHookBegin
        \/ \E err \in {Nil, HookErr(hookIdx)} : StartupHookEnd(err)
        \/ StartupEnd
        \/ Dispatch
        \/ LaunchEnd
  \/ RunLaunched
  \/ RunWaitForShutdown
  \/ /\ runPc = "shutdown"
     /\ \/ ShutdownDeadline
        \/ ShutdownBegin
        \/ \E i \in ProcIds :
             \E err \in {Nil, ShutErr(i)} : ShutReturn(i, err)
        \/ \E i \in ProcIds : ShutRecv(i)
        \/ ShutTimeout
        \/ ShutCancel
        \/ ShutGroupDone
        \/ CleanupHookBegin
        \/ \E err \in {Nil, HookErr(stopIdx)} : CleanupHookEnd(err)
        \/ CleanupEnd
  \/ RunShutdownReturned
  \/ RunTerminated
  \/ \E i \in ProcIds :
       \E err \in {Nil, Canceled, RunErr(i)} : RunReturn(i, err)
  \/ \E s \in Signals : SignalArrives(s)
  \/ Monitor

RunSpec == RunInit /\ [][RunNext]_vars

\* The application configured with RecoverAll set before Launch.
RecoverAllInit == Init /\ RecoverAll = TRUE /\ UseProcessFile = FALSE

RecoverAllSpec == RecoverAllInit /\ [][Next]_vars

\* An application that is not started, beside which the loops of package
\* process run on their own.
AppIdle ==
  /\ RecoverAll = FALSE
  /\ UseProcessFile = FALSE
  /\ pidFile = FALSE
  /\ OnShutdownErr = "nil"
  /\ InitState

\* ContextLoop and ContextRetry with each setting of the options, called
\* with a live context.
LoopInit ==
  /\ AppIdle
  /\ SleepFuncIdle
  /\ SchedIdle
  /\ loopKind \in {"loop", "retry"}
  /\ opts \in [maxErrors : 0..MaxMaxErrors, isBreakableLoop : BOOLEAN,
               sleep : {0, 1}, errorSleep : {"for", "make"}]
  /\ LoopState("top")

LoopNext ==
  \/ \E cause \in {Canceled, CauseErr} : EndLoopCtx(Canceled, cause)
  \/ EndLoopCtx(DeadlineExceeded, DeadlineExceeded)
  \/ \E err \in {Canceled, DeadlineExceeded} : EndRunCtx(err)
  \/ LoopTop
  \/ \E err \in {Nil, ProviderErr, Canceled} : GetCtxReturns(err)
  \/ \E err \in {Nil, UnitErr, ErrBreakContextLoop, Canceled} :
       UnitReturns(err)
  \/ \E err \in {Nil, Canceled, DeadlineExceeded} : WaitReturns(err)

LoopSpec == LoopInit /\ [][LoopNext]_vars

\* A select with a ready case proceeds, and so does the goroutine of the
\* loop between two blocking calls.
LoopFairSpec ==
  /\ LoopSpec
  /\ WF_vars(LoopTop)
  /\ WF_vars(\E err \in {Nil, Canceled, DeadlineExceeded} : WaitReturns(err))

\* MakeErrorSleepFunc called with each r, d and backoff of the bounds, and
\* the function it returns with each error count.
SleepFuncInit ==
  /\ AppIdle
  /\ LoopIdle
  /\ SchedIdle
  /\ esArgs \in [r : 0..MaxRetryCount, d : Durations, backoff : Backoffs,
                 errCount : 1..MaxErrCount]
  /\ esResult = <<>>
  /\ fnArgs = <<>>
  /\ fnResult = <<>>

SleepFuncNext == ApplyErrorSleep

SleepFuncSpec == SleepFuncInit /\ [][SleepFuncNext]_vars

\* A process made by Scheduled with each schedule and each setting of
\* maxErrors and of the error sleep, started with an empty cursor.
Schedules ==
  {Every(2, 0), Every(3, 1), Poll(2), TimeOfDay(1), ParseCron(3, {0, 1})}

SchedInit ==
  /\ AppIdle
  /\ LoopIdle
  /\ SleepFuncIdle
  /\ schedOpts \in [when : Schedules, maxErrors : 0..MaxMaxErrors,
                    errorSleep : {0, 2}]
  /\ SchedState("top")

SchedNext ==
  \/ Tick
  \/ EndSchedCtx(Canceled, Canceled)
  \/ EndRoleCtx
  \/ Restart
  \/ SchedTop
  \/ \E err \in {Nil, ProviderErr, Canceled} : AwaitRoleReturns(err)
  \/ \E err \in {Nil, Canceled} : WaitUntilReturns(err)
  \/ \E err \in {Nil, UnitErr, Canceled} : FuncReturns(err)
  \/ \E err \in {Nil, Canceled} : SleepReturns(err)

SchedSpec == SchedInit /\ [][SchedNext]_vars

\* The same process, whose context ends in each way a context can end:
\* cancelled, cancelled with a cause, or past its deadline.
SchedRunInit ==
  /\ AppIdle
  /\ LoopIdle
  /\ SleepFuncIdle
  /\ schedOpts \in [when : {Every(2, 0), Poll(2)}, maxErrors : {0, 1},
                    errorSleep : {0, 2}]
  /\ SchedState("top")

SchedRunNext ==
  \/ Tick
  \/ \E cause \in {Canceled, CauseErr} : EndSchedCtx(Canceled, cause)
  \/ EndSchedCtx(DeadlineExceeded, DeadlineExceeded)
  \/ EndRoleCtx
  \/ SchedTop
  \/ \E err \in {Nil, ProviderErr, Canceled} : AwaitRoleReturns(err)
  \/ \E err \in {Nil, Canceled, DeadlineExceeded} : WaitUntilReturns(err)
  \/ \E err \in {Nil, UnitErr, Canceled} : FuncReturns(err)
  \/ \E err \in {Nil, Canceled, DeadlineExceeded} : SleepReturns(err)

SchedRunSpec == SchedRunInit /\ [][SchedRunNext]_vars

\* Bounds of the schedule functions: the latest instant now, how far a last
\* run time lies after it, and the longest period of an interval.
MaxInstant == 9
MaxAhead == 2
MaxPeriod == 3

\* Cron expressions: every minute, three times an hour, daily, weekly on
\* two days, yearly, every leap year, and one that never fires. Two firings
\* of a cron expression are a year apart at most, or four years or more for
\* one that fires on 29 February only.
Crons ==
  {ParseCron(1, {0}), ParseCron(60, {2, 5, 7}), ParseCron(1440, {3}),
   ParseCron(10080, {4, 1444}), ParseCron(525600, {6}),
   ParseCron(2103840, {0}), ParseCron(1440, {})}

\* Each schedule with each configuration of the bounds, those a caller
\* can write down though they make little sense included.
FuncSchedules ==
  {Every(p, o) : p \in 0..MaxPeriod, o \in (-1)..MaxPeriod}
    \cup {Poll(w) : w \in (-1)..MaxPeriod}
    \cup {TimeOfDay(at) : at \in (-1)..DayLen}
    \cup Crons
    \cup {ToTimezone(TimeOfDay(at), tz) : at \in 0..(DayLen - 1),
                                          tz \in {-1, 1, 2}}
    \cup {ToTimezone(s, 1) : s \in {Every(2, 1), Poll(1)} \cup Crons}

\* Next, Previous and nextExecution applied to the arguments, and
\* nextExecution applied again with the instant it returned as the last
\* run, as the iteration after a run that recorded it does when the clock
\* has not moved.
ApplySchedule ==
  /\ fnResult = <<>>
  /\ LET s == fnArgs.s
         due == nextExecution(fnArgs.now, fnArgs.last, s)
     IN fnResult' =
          <<[next |-> ScheduleNext(s, fnArgs.now),
             previous |-> IF previousAware(s)
                            THEN <<SchedulePrevious(s, fnArgs.now)>>
                            ELSE <<>>,
             due |-> due,
             after |-> nextExecution(fnArgs.now, TimeAt(due), s)]>>
  /\ UNCHANGED <<appVars, loopVars, schedVars, esArgs, esResult, fnArgs>>

ScheduleFuncInit ==
  /\ AppIdle
  /\ LoopIdle
  /\ SchedIdle
  /\ esArgs = [r |-> 0, d |-> 0, backoff |-> <<>>, errCount |-> 1]
  /\ esResult = <<>>
  /\ fnArgs \in [s : FuncSchedules, now : 0..MaxInstant,
                 last : {ZeroTime}
                          \cup {TimeAt(u) : u \in 0..(MaxInstant + MaxAhead)}]
  /\ fnResult = <<>>

ScheduleFuncNext == ApplySchedule

ScheduleFuncSpec == ScheduleFuncInit /\ [][ScheduleFuncNext]_vars

----------------------------------------------------------------------------
\* Helpers of the properties

EventTypes(s) == [k \in DOMAIN s |-> s[k].Type]
CountType(t) == Cardinality({k \in DOMAIN events : events[k].Type = t})
IsType(e, ts) == e.Type \in ts
HookStopNames ==
  LET pre == SelectSeq(events, LAMBDA e : e.Type = "PreHookStop")
  IN [k \in DOMAIN pre |-> pre[k].Name]
HookNames(hs) == [k \in DOMAIN hs |-> hs[k].Name]
ShutdownReturned == shutPc \in {"cleanup", "stophook", "done"}
RunInvoked == \E i \in DOMAIN tasks : tasks[i].runs > 0

----------------------------------------------------------------------------
\* C1: once a startup hook has returned an error or the startup deadline has
\* expired during the hooks, Launch returns a non-nil error, no further
\* startup hook is called, no ProcessStart event is emitted and no Run
\* function is invoked, then or later.
C1_Aborted == launchPc = "failed" \/ startCtxErr # Nil

C1_StartupFailureAbortsLaunch ==
  /\ [](C1_Aborted =>
          /\ launchPc \in {"startup", "hook", "failed"}
          /\ launchPc = "failed" => launchRes # Nil
          /\ CountType("ProcessStart") = 0
          /\ ~RunInvoked)
  /\ [][C1_Aborted =>
          /\ C1_Aborted'
          /\ CountType("PreHookStart")' = CountType("PreHookStart")]_vars

C1_Witness ==
  /\ launchPc = "failed"
  /\ launchRes = HookErr(1)
  /\ Len(startupHooks) = 2
  /\ \E i \in Procs : processes[i].Run

----------------------------------------------------------------------------
\* C2 as stated: when a process run without recovery has returned a non-nil
\* error from Run, the shared run context is cancelled and the following
\* Shutdown returns that error.
FailedWithoutRecovery(i) ==
  /\ tasks[i].pc = "exited"
  /\ ~tasks[i].recover
  /\ tasks[i].ret # Nil

NoShutdownErrCollected ==
  \A k \in DOMAIN errs : errs[k].k \notin {"shutdown", "DeadlineExceeded"}

----------------------------------------------------------------------------
\* C3: unless the shutdown deadline has expired, Shutdown has cancelled the
\* shared run context only when every explicit Shutdown function has been
\* called and has returned, also when some of them return errors.
C3_CancelAfterExplicitShutdowns ==
  (shutPc = "wait" /\ shutCtxErr = Nil) =>
    \A i \in DOMAIN shuts : shuts[i].pc # "spawned"

----------------------------------------------------------------------------
\* C4: when every explicit Shutdown function and every process task has
\* finished within the shutdown deadline, each non-cancellation error
\* returned by an explicit Shutdown function or by the process group is the
\* error Shutdown returned or has been logged, and Shutdown returned non-nil
\* if any explicit Shutdown function returned an error.
Surfaced(e) == e = shutRes \/ e \in logged

C4_NoShutdownErrorDropped ==
  ( /\ shutPc = "done"
    /\ shutCtxErr = Nil
    /\ TasksExited
    /\ \A i \in DOMAIN shuts : shuts[i].pc # "spawned" ) =>
      /\ \A i \in DOMAIN shuts :
           shuts[i].ret \notin {Nil, Canceled} => Surfaced(shuts[i].ret)
      /\ egErr \notin {Nil, Canceled} => Surfaced(egErr)
      /\ (\E i \in DOMAIN shuts : shuts[i].ret # Nil) => shutRes # Nil

----------------------------------------------------------------------------
\* C5: when the collecting of the explicit Shutdown functions timed out,
\* Shutdown has cancelled the shared run context by the time it returns.
C5_TimeoutStillCancels ==
  (shutPc = "done" /\ collected < shutCount) => appCtxErr # Nil

----------------------------------------------------------------------------
\* C6: the explicit Shutdown functions run concurrently. When one of them
\* sets the signal the others wait for, in any registration order, the
\* collecting loop is never stuck before the deadline, and a Shutdown whose
\* functions and tasks all succeeded within the deadline returns nil.
ShutStep ==
  \E i \in ProcIds :
    \/ \E err \in {Nil, ShutErr(i)} : ShutReturn(i, err)
    \/ ShutRecv(i)

C6_DependentShutdownsComplete ==
  /\ ( /\ shutPc = "collect"
       /\ collected < shutCount
       /\ shutCtxErr = Nil
       /\ \E j \in Procs : processes[j].Shutdown = "signal" )
       => ENABLED ShutStep
  /\ ( /\ shutPc = "done"
       /\ shutCtxErr = Nil
       /\ \A i \in DOMAIN shuts : shuts[i].pc # "spawned" /\ shuts[i].ret = Nil
       /\ egErr \in {Nil, Canceled} )
       => shutRes = Nil

C6_Witness ==
  /\ Len(processes) = 2
  /\ processes[1].Shutdown = "wait"
  /\ processes[2].Shutdown = "signal"
  /\ shutPc = "done"
  /\ shutCtxErr = Nil
  /\ shuts[1].pc = "done"
  /\ shuts[2].pc = "done"
  /\ shutRes = Nil

----------------------------------------------------------------------------
\* C7: Shutdown does not block on an explicit Shutdown function or a process
\* task that does not finish: when it has returned while one of them had
\* not finished, it returned the deadline error.
C7_UnfinishedMeansDeadlineError ==
  ( /\ shutPc = "done"
    /\ \/ \E i \in DOMAIN shuts : shuts[i].pc = "spawned"
       \/ ~TasksExited )
    => shutRes = DeadlineExceeded

----------------------------------------------------------------------------
\* C8: once Launch has returned, RunningProcesses is the list of the names
\* of the processes whose task has not exited; it is empty after a Shutdown
\* that returned nil and never holds a process without a Run function.
StillRunning ==
  LET ids == SelectSeq([i \in Procs |-> i],
                       LAMBDA i : tasks[i].pc = "running")
  IN [k \in 1..Len(ids) |-> processes[ids[k]].Name]

C8_RunningProcessesExact ==
  (launchPc = "done" /\ appCtxMade) =>
    /\ RunningProcesses = StillRunning
    /\ \A i \in Procs :
         ~processes[i].Run =>
           \A k \in DOMAIN RunningProcesses :
             RunningProcesses[k] # processes[i].Name
    /\ (shutPc = "done" /\ shutRes = Nil) => RunningProcesses = <<>>

C8_Witness ==
  /\ Len(processes) = 2
  /\ processes[1].Run
  /\ ~processes[2].Run
  /\ shutPc = "done"
  /\ shutRes = DeadlineExceeded
  /\ RunningProcesses = <<ProcName(1)>>

----------------------------------------------------------------------------
\* C9: when Shutdown has returned, every registered shutdown hook has been
\* called exactly once, in hook order, whatever the outcome of the process
\* phases.
C9_AllShutdownHooksRun ==
  shutPc = "done" => HookStopNames = HookNames(shutdownHooks)

----------------------------------------------------------------------------
\* C10: Shutdown emits AppTerminating before anything else it does and
\* AppTerminated as its last event, after the events of the shutdown hooks,
\* whatever it returns.
StopEvents == {"PreHookStop", "PostHookStop", "AppTerminated"}

C10_TerminatingFirstTerminatedLast ==
  /\ shutPc = "none" =>
       /\ \A k \in DOMAIN events :
            events[k].Type \notin StopEvents \cup {"AppTerminating"}
       /\ shuts = <<>> /\ collected = 0 /\ stopIdx = 1
  /\ shutPc # "none" =>
       /\ CountType("AppTerminating") = 1
       /\ \A k \in DOMAIN events :
            events[k].Type \in StopEvents =>
              \E t \in 1..(k - 1) : events[t].Type = "AppTerminating"
  /\ shutPc # "done" => CountType("AppTerminated") = 0
  /\ shutPc = "done" =>
       /\ CountType("AppTerminated") = 1
       /\ events[Len(events)].Type = "AppTerminated"

C10_Witness ==
  /\ shutPc = "done"
  /\ shutRes = RunErr(1)
  /\ CountType("PostHookStop") = 2
  /\ cleanupErrs # <<>>

----------------------------------------------------------------------------
\* C11: in a Launch whose hooks succeed the events are AppStartup, then
\* PreHookStart and PostHookStart of each startup hook in hook order, then
\* ProcessStart of every process that has a Run function, then AppRunning;
\* while Launch is under way the events so far are a prefix of that sequence.
HookStartEvents(hs) ==
  [k \in 1..(2 * Len(hs)) |->
     Event(IF k % 2 = 1 THEN "PreHookStart" ELSE "PostHookStart",
           hs[(k + 1) \div 2].Name)]

ProcessStartEvents ==
  LET ids == SelectSeq([i \in Procs |-> i], LAMBDA i : processes[i].Run)
  IN [k \in 1..Len(ids) |-> Event("ProcessStart", processes[ids[k]].Name)]

LaunchEvents ==
  <<Event("AppStartup", NoName)>> \o HookStartEvents(startupHooks)
    \o ProcessStartEvents \o <<Event("AppRunning", NoName)>>

----------------------------------------------------------------------------
\* C12: whatever the order of the registrations, the startup hooks (and the
\* shutdown hooks) are run in ascending priority, and hooks of equal priority
\* in registration order; a Launch and a Shutdown within their deadlines run
\* every registered hook.
HookStartNames ==
  LET pre == SelectSeq(events, LAMBDA e : e.Type = "PreHookStart")
  IN [k \in DOMAIN pre |-> pre[k].Name]

HookByName(hs, n) == CHOOSE h \in ToSet(hs) : h.Name = n

RanInOrder(names, hs) ==
  \A a, b \in DOMAIN names :
    a < b =>
      LET ha == HookByName(hs, names[a])
          hb == HookByName(hs, names[b])
      IN \/ ha.Priority < hb.Priority
         \/ ha.Priority = hb.Priority /\ ha.createOrder < hb.createOrder

C12_HooksRunInPriorityOrder ==
  /\ RanInOrder(HookStartNames, startupHooks)
  /\ RanInOrder(HookStopNames, shutdownHooks)
  /\ launchPc = "done" => Len(HookStartNames) = Len(startupHooks)
  /\ shutPc = "done" => Len(HookStopNames) = Len(shutdownHooks)

C12_Witness ==
  /\ shutPc = "done"
  /\ Len(startupHooks) = 2
  /\ Len(shutdownHooks) = 2
  /\ HookStartNames = <<HookName(1), HookName(0)>>
  /\ HookStopNames = <<HookName(1), HookName(0)>>
  /\ startupHooks[1].Priority = HookPriorityDefault
  /\ shutdownHooks[1].Priority = HookPriorityFirst

----------------------------------------------------------------------------
\* C13: when an invocation of Run panics in a task started with recovery
\* while the run context is live, the task invokes Run again.
C13_PanicIsReinvoked ==
  [][\A i \in DOMAIN tasks :
       ( /\ tasks[i].recover
         /\ tasks[i].runs < MaxRuns
         /\ appCtxErr = Nil
         /\ RecoverReturn(i, errProcessPanicked) )
         => /\ tasks'[i].pc = "running"
            /\ tasks'[i].runs = tasks[i].runs + 1]_vars

----------------------------------------------------------------------------
\* C14: at most one invocation of a process's Run function is active at any
\* time; without recovery Run is invoked exactly once per Launch; with
\* recovery a Run that returns an ordinary error while the run context is
\* live is invoked again, in the step in which the previous invocation
\* returned.
ActiveRuns(i) == tasks[i].runs - tasks[i].ends

C14_RunNeverConcurrent ==
  /\ [](\A i \in DOMAIN tasks :
          /\ ActiveRuns(i) \in {0, 1}
          /\ ActiveRuns(i) = 1 <=> tasks[i].pc = "running"
          /\ (tasks[i].pc # "none" /\ ~tasks[i].recover) => tasks[i].runs = 1
          /\ (launchPc = "done" /\ processes[i].Run) => tasks[i].runs >= 1
          /\ ~processes[i].Run => tasks[i].runs = 0)
  /\ [][\A i \in DOMAIN tasks :
          ( /\ tasks[i].recover
            /\ tasks[i].runs < MaxRuns
            /\ appCtxErr = Nil
            /\ RecoverReturn(i, RunErr(i)) )
            => /\ tasks'[i].pc = "running"
               /\ tasks'[i].runs = tasks[i].runs + 1
               /\ tasks'[i].ends = tasks[i].ends + 1]_vars

C14_Witness ==
  /\ Len(tasks) = 2
  /\ tasks[1].recover
  /\ tasks[1].pc = "running"
  /\ tasks[1].runs = 2
  /\ tasks[1].ends = 1
  /\ ~tasks[2].recover
  /\ tasks[2].pc = "exited"
  /\ tasks[2].runs = 1

----------------------------------------------------------------------------
\* C15: with RecoverAll set to true before Launch, every process task is
\* started with recovery.
C15_RecoverAllRecoversEveryProcess ==
  \A i \in DOMAIN tasks : tasks[i].pc # "none" => tasks[i].recover

----------------------------------------------------------------------------
\* C16: with no OnShutdownErr configured, Run returns 1 exactly when Launch
\* failed, Shutdown returned an error or a shutdown hook returned an error,
\* and 0 otherwise.
C16_ExitStatusReflectsEveryFailure ==
  (runPc = "returned" /\ OnShutdownErr = "nil") =>
    /\ exit \in {0, 1}
    /\ exit = 1 <=>
         (launchRes # Nil \/ shutRes # Nil \/ cleanupErrs # <<>>)

----------------------------------------------------------------------------
----------------------------------------------------------------------------
\* C18: when a process ended the application by returning an error from Run
\* and OnShutdownErr maps the shutdown error to nil, Run returns 0.
C18_MappedShutdownErrExitsZero ==
  ( /\ runPc = "returned"
    /\ OnShutdownErr = "toNil"
    /\ launchRes = Nil
    /\ shutRes.k = "run" )
    => exit = 0

----------------------------------------------------------------------------
\* C19: the termination context is cancelled exactly when monitor has
\* received a SIGINT or a SIGTERM, before or after a SIGQUIT; the application
\* context is cancelled exactly when monitor has received any of the three
\* signals; a cancelled termination context implies a cancelled application
\* context.
TerminateSeen ==
  \E k \in DOMAIN handled : handled[k] \in {"SIGINT", "SIGTERM"}

C19_SignalsCancelContexts ==
  /\ termCtxErr # Nil <=> TerminateSeen
  /\ parentErr # Nil <=> handled # <<>>
  /\ termCtxErr # Nil => parentErr # Nil

C19_Witness ==
  /\ handled = <<"SIGQUIT", "SIGTERM">>
  /\ termCtxErr = Canceled
  /\ parentErr = Canceled

----------------------------------------------------------------------------
\* C20: with UseProcessFile set and no pid file left by another process, the
\* pid file does not exist once Run has returned.
C20_PidFileRemovedOnReturn ==
  (runPc = "returned" /\ UseProcessFile) => ~pidFile

----------------------------------------------------------------------------
\* Properties of the loops of package process

\* Whether the loop counts err as an error of the unit of work.
Failure(err) ==
  /\ err # Nil
  /\ ~Is(err, Canceled)
  /\ ~(opts.isBreakableLoop /\ Is(err, ErrBreakContextLoop))

LastCall == calls[Len(calls)]

\* The last n invocations of the unit of work all failed.
FailedInARow(n) ==
  /\ Len(calls) >= n
  /\ \A i \in (Len(calls) - n + 1)..Len(calls) : Failure(calls[i])

Failures == {i \in DOMAIN calls : Failure(calls[i])}

\* C21: in ContextLoop with maxErrors = n > 0, Run returns the error of the
\* unit of work exactly when the unit has failed n times in a row, and
\* with maxErrors = 0 it never returns an error of the unit of work.
C21_MaxErrorsEndsLoop ==
  loopKind = "loop" =>
    /\ (opts.maxErrors > 0 /\ FailedInARow(opts.maxErrors))
         => (loopPc = "done" /\ loopRet = LastCall)
    /\ loopRet \in {UnitErr, ErrBreakContextLoop}
         => (opts.maxErrors > 0 /\ FailedInARow(opts.maxErrors))

\* C22: in ContextLoop, Run returns nil if and only if the loop is breakable
\* and the unit of work returned the break signal, which then is not counted
\* as an error; in a loop that is not breakable the break signal is counted
\* like every other error.
C22_BreakOnlyWhenBreakable ==
  loopKind = "loop" =>
    /\ loopRet = Nil <=> (/\ opts.isBreakableLoop
                          /\ calls # <<>>
                          /\ LastCall = ErrBreakContextLoop)
    /\ errCounter = Cardinality(Failures)

\* C23: in ContextLoop, Run does not return the error of the context
\* provider unless the error count reached maxErrors.
C23_ProviderErrorIsRetried ==
  (loopKind = "loop" /\ loopRet = ProviderErr)
    => (opts.maxErrors > 0 /\ errCount >= opts.maxErrors)

\* The loop is in its wait, the context of the run is cancelled and the
\* context of the process is live.
RunCancelledInWait ==
  loopPc = "wait" /\ runCtxErr = Canceled /\ loopCtxErr = Nil

\* C24: when the context of the run is cancelled during the wait of
\* ContextLoop or ContextRetry and the outer context is live, the wait ends
\* without Run returning, and the loop calls the context provider again
\* unless the outer context ends first.
C24_RunCancelDuringWait ==
  /\ [][(RunCancelledInWait /\ loopPc' # "wait")
          => (loopPc' = "top" /\ loopRet' = NoRet)]_vars
  /\ RunCancelledInWait ~> (loopPc = "getCtx" \/ loopCtxErr # Nil)

C24_Witness ==
  /\ loopPc = "getCtx"
  /\ waitRes = Canceled
  /\ loopCtxErr = Nil
  /\ loopRet = NoRet
  /\ sleeps # <<>>

\* C25: ContextRetry invokes a unit that fails k times and then succeeds
\* k + 1 times, calls lu.Wait once after each failure with the error sleep
\* of that error count and never with the success sleep, and Run returns nil
\* after the first success and only then.
C25_RetryUntilFirstSuccess ==
  loopKind = "retry" =>
    /\ \A i \in DOMAIN calls : i < Len(calls) => calls[i] # Nil
    /\ Len(sleeps) = Cardinality({i \in DOMAIN calls : calls[i] # Nil})
    /\ \A i \in DOMAIN sleeps :
         sleeps[i] = Sleep("errorSleep", i, OptsErrorSleep(i))
    /\ (calls # <<>> /\ LastCall = Nil)
         => (loopPc = "done" /\ (loopCtxErr = Nil => loopRet = Nil))
    /\ loopRet = Nil => (calls # <<>> /\ LastCall = Nil)

C25_Witness ==
  /\ loopKind = "retry"
  /\ loopRet = Nil
  /\ calls = <<UnitErr, UnitErr, Nil>>
  /\ Len(sleeps) = 2
  /\ sleeps[1].d # sleeps[2].d

\* C26: when lu.Wait returns because the context ended, it returns the
\* cause the context was cancelled with.
C26_WaitReportsCause ==
  [][(loopPc = "wait" /\ loopPc' # "wait" /\ waitRes' # Nil)
       => waitRes' = runCtxCause]_vars

\* The value the claim gives for MakeErrorSleepFunc(r, d, m) at count c.
Min(a, b) == IF a <= b THEN a ELSE b
ClaimedErrorSleep(r, d, m, c) ==
  IF c <= r THEN 0
  ELSE IF m = <<>> THEN d
  ELSE d * m[Min(c - 1 - r, Len(m) - 1) + 1]

\* C27: the function MakeErrorSleepFunc(r, d, m) returns 0 for the error
\* counts up to r, d beyond them without multipliers, and otherwise d times
\* the multiplier at c - 1 - r, or the last multiplier beyond the table.
C27_ErrorSleepFollowsTable ==
  esResult # <<>> =>
    esResult[1] = ClaimedErrorSleep(esArgs.r, esArgs.d, esArgs.backoff,
                                    esArgs.errCount)

C27_Witness ==
  /\ esResult # <<>>
  /\ esArgs.r = 1
  /\ esArgs.backoff = <<1, 2, 5>>
  /\ esArgs.errCount > Len(esArgs.backoff) + esArgs.r
  /\ esResult[1] = 5 * esArgs.d

----------------------------------------------------------------------------
\* Properties of the scheduler

\* This iteration gives up on the due instant without calling the function.
GivesUp == schedOpts.maxErrors > 0 /\ ErrCount >= schedOpts.maxErrors

\* The function is not called before the due instant.
NotBeforeDue == schedPc = "f" => clockNow >= next

\* While the clock is before the due instant, a cancelled wait neither
\* calls the function nor writes the cursor.
CancelledWaitLeavesCursor ==
  [][(schedPc = "waitUntil" /\ roleCtxErr # Nil /\ clockNow < next)
       => (schedPc' # "f" /\ cursor' = cursor)]_vars

\* C28 as stated: the function is never called before the due instant, the
\* cursor is written, with the due instant, only when the function returned
\* nil, and a wait cancelled before the due instant leaves the function
\* uncalled and the cursor unchanged.
C28_Original ==
  /\ []NotBeforeDue
  /\ [][cursor' # cursor
          => (schedPc = "f" /\ getLastRun(cursor') = TimeAt(next'))]_vars
  /\ CancelledWaitLeavesCursor

\* C28 amended: the cursor is written with the due instant only when the
\* function returned nil or when the iteration gives up on the due instant
\* because the error count reached maxErrors, in which case the function
\* is not called.
C28_CursorAfterRunOrGiveUp ==
  /\ []NotBeforeDue
  /\ [][cursor' # cursor
          => /\ getLastRun(cursor') = TimeAt(next')
             /\ \/ schedPc = "f"
                \/ schedPc = "awaitRole" /\ GivesUp /\ schedPc' # "f"]_vars
  /\ CancelledWaitLeavesCursor

C28_Witness ==
  /\ schedPc = "top"
  /\ next \in doneRuns
  /\ getLastRun(cursor) = TimeAt(next)
  /\ next > 0
  /\ clockNow >= next

\* C29: the function is never called for a due instant for which a call has
\* already returned nil.
C29_NoRunTwiceForDueInstant == schedPc = "f" => next \notin doneRuns

\* C30 as stated: after the function returned an error the cursor is
\* unchanged, and the next iteration that computes a due instant computes
\* the same one and calls the function with the same run ID.
C30_Original ==
  failed.set =>
    /\ getLastRun(cursor) = failed.last
    /\ schedPc \in {"waitUntil", "f"}
         => (next = failed.due /\ runID(next) = failed.id)

\* C30 amended: the same, for a cursor that holds the due instant of a
\* completed run and, with an interval schedule, while the clock has not
\* reached a later instant of the schedule.
C30_FailedRunIsRetried ==
  failed.set =>
    /\ getLastRun(cursor) = failed.last
    /\ (/\ schedPc \in {"waitUntil", "f"}
        /\ ~failed.last.zero
        /\ failed.last.unix \in doneRuns
        /\ previousAware(schedOpts.when)
             => SchedulePrevious(schedOpts.when, clockNow) <= failed.due)
         => (next = failed.due /\ runID(next) = failed.id)

C30_Witness ==
  /\ failed.set
  /\ schedPc = "f"
  /\ ErrCount > 0
  /\ failed.last.unix \in doneRuns
  /\ next = failed.due

----------------------------------------------------------------------------
\* Properties of the schedule functions

\* The schedule function has been applied to the arguments.
Applied == fnResult # <<>>

\* An instant of the form k * period + offset.
OfForm(s, x) == (x - s.offset) % s.period = 0

\* An interval whose offset is a lag within its period.
Regular(s) == s.kind = "interval" /\ s.period > 0
                /\ 0 <= s.offset /\ s.offset < s.period

\* C35: for Every(period, offset) with 0 <= offset < period and every
\* instant t, Next(t) is the smallest instant k * period + offset after t,
\* Previous(t) the largest such instant at or before t, and Next(t) is
\* Previous(t) + period.
C35_IntervalNextAndPrevious ==
  (Applied /\ Regular(fnArgs.s)) =>
    LET s == fnArgs.s
        t == fnArgs.now
        nxt == fnResult[1].next
        prev == fnResult[1].previous[1]
    IN /\ OfForm(s, nxt) /\ nxt > t
       /\ \A x \in (t + 1)..(nxt - 1) : ~OfForm(s, x)
       /\ OfForm(s, prev) /\ prev <= t
       /\ \A x \in (prev + 1)..t : ~OfForm(s, x)
       /\ nxt = prev + s.period

C35_Witness ==
  /\ Applied
  /\ fnArgs.s = Every(3, 1)
  /\ fnArgs.now = 3
  /\ fnResult[1].next = 4
  /\ fnResult[1].previous = <<1>>

\* A configuration for which Next moves forward: a positive period and an
\* offset that is not negative, a positive wait, a time within the day, a
\* cron expression that fires, or a wrapper of one of these.
Advancing(s) ==
  CASE s.kind = "interval" -> s.period > 0 /\ s.offset >= 0
    [] s.kind = "wait" -> s.period > 0
    [] s.kind = "timeOfDay" -> 0 <= s.offset /\ s.offset < DayLen
    [] s.kind = "cron" -> s.fires # {}
    [] s.kind = "tz" ->
         CASE s.inner.kind = "interval" ->
                s.inner.period > 0 /\ s.inner.offset >= 0
           [] s.inner.kind = "wait" -> s.inner.period > 0
           [] s.inner.kind = "timeOfDay" ->
                0 <= s.inner.offset /\ s.inner.offset < DayLen
           [] s.inner.kind = "cron" -> s.inner.fires # {}

\* C34 as stated: for every schedule, every configuration of it and every
\* instant t, Next(t) is strictly after t.
C34_Original == Applied => fnResult[1].next > fnArgs.now

\* C34 amended: Next(t) is strictly after t for Every with a positive
\* period and an offset that is not negative, Poll with a positive wait,
\* TimeOfDay with a time within the day, a cron expression that fires, and
\* the timezone wrapper of any of these.
C34_NextIsAfter ==
  (Applied /\ Advancing(fnArgs.s)) => fnResult[1].next > fnArgs.now

C34_Witness ==
  /\ Applied
  /\ fnArgs.s = ToTimezone(TimeOfDay(1), 2)
  /\ fnArgs.now = 3
  /\ fnResult[1].next \in (fnArgs.now + 1)..(fnArgs.now + DayLen)

\* The last run time given to nextExecution lies before the expected last
\* run of a previous-aware schedule.
Behind ==
  /\ Applied
  /\ previousAware(fnArgs.s)
  /\ ~fnArgs.last.zero
  /\ fnArgs.last.unix < fnResult[1].previous[1]

\* C31: for a previous-aware schedule (an interval whose offset is a lag
\* within its period, or a cron expression) and a last run time older than
\* P = Previous(now), nextExecution returns P, an instant not after now,
\* however many firings were missed; and once P is recorded as done,
\* nextExecution returns Next(now).
C31_OneCatchUpRun ==
  (Behind /\ (Regular(fnArgs.s) \/ fnArgs.s.kind = "cron")) =>
    /\ fnResult[1].due = fnResult[1].previous[1]
    /\ fnResult[1].due <= fnArgs.now
    /\ fnResult[1].after = fnResult[1].next

\* Three firings were missed: the catch-up run is the latest of them.
C31_Witness ==
  /\ Behind
  /\ fnArgs.s = Every(2, 0)
  /\ fnArgs.now = 9
  /\ fnArgs.last = TimeAt(2)
  /\ fnResult[1].due = 8
  /\ fnResult[1].after = 10

\* The last run time given to nextExecution lies after the expected last
\* run of a previous-aware schedule.
Ahead ==
  /\ Applied
  /\ previousAware(fnArgs.s)
  /\ ~fnArgs.last.zero
  /\ fnArgs.last.unix > fnResult[1].previous[1]

\* C32: nextExecution called with a last run time later than the expected
\* previous firing as of now returns Next(now).
C32_AheadCursorReturnsNext ==
  (Ahead /\ (Regular(fnArgs.s) \/ fnArgs.s.kind = "cron")) =>
    fnResult[1].due = fnResult[1].next

\* The latest firing of a cron expression that fires, at or before t.
LatestFiring(s, t) ==
  LET base == t - (t % s.period)
      near == {base + f : f \in s.fires}
                \cup {base - s.period + f : f \in s.fires}
  IN CHOOSE x \in near : x <= t /\ \A y \in near : y <= t => y <= x

\* C37: for a cron schedule Previous(now) returns the latest firing at or
\* before now, an instant P with Next(P) = Next(now), whenever that firing
\* lies within the look-back cap of Next(now), and now itself otherwise, as
\* for an expression that never fires.
C37_CronPrevious ==
  (Applied /\ fnArgs.s.kind = "cron") =>
    LET s == fnArgs.s
        prev == fnResult[1].previous[1]
    IN IF s.fires # {}
          /\ fnResult[1].next - LatestFiring(s, fnArgs.now) <= maxLookBack
       THEN /\ prev = LatestFiring(s, fnArgs.now)
            /\ cronScheduleNext(s, prev) = fnResult[1].next
       ELSE prev = fnArgs.now

\* The look-back doubles three times and the scan passes two firings.
C37_Witness ==
  /\ Applied
  /\ fnArgs.s = ParseCron(60, {2, 5, 7})
  /\ fnArgs.now = 9
  /\ fnResult[1].next = 62
  /\ fnResult[1].previous = <<7>>

\* Run returns only when the context of the process is done.
ReturnsWhenDone == schedPc = "done" => schedCtxErr # Nil

\* C36: the process returned by Scheduled returns from Run only when its
\* context is done, and then returns the cancellation cause of the context.
C36_RunReturnsCause ==
  schedPc = "done" => (schedCtxErr # Nil /\ schedRet = schedCtxCause)

\* The step in which doNext gives up on the due instant.
GiveUpStep == schedPc = "awaitRole" /\ schedPc' # "awaitRole" /\ gaveUp'

\* The function is not called once the error count reached maxErrors, the
\* error count is zero after the iteration gave up, and an iteration gives
\* up only when the error count reached maxErrors.
GiveUpRule ==
  /\ (schedPc # "f" /\ schedPc' = "f") => ~GivesUp
  /\ GiveUpStep => (GivesUp /\ ErrCount' = 0 /\ schedPc' # "f")

C38_CursorNeverDecreases ==
  [][cursor # <<>> =>
       /\ cursor' # <<>>
       /\ getLastRun(cursor').unix >= getLastRun(cursor).unix]_vars

----------------------------------------------------------------------------
\* C39: when every startup hook succeeded within the deadline and the
\* context given to Launch is live, Launch returns nil, whatever the
\* process tasks it started have done by then.
C39_LaunchReturnsNil ==
  (launchPc = "done" /\ parentErr = Nil) => launchRes = Nil

\* The ProcessStart events emitted for process i.
StartsOf(i) ==
  Cardinality({k \in DOMAIN events :
                 events[k] = Event("ProcessStart", processes[i].Name)})

\* C40: at every moment the number of ProcessEnd events emitted for a
\* process is at most the number of ProcessStart events emitted for it.
C40_EndAfterItsStart ==
  \A i \in DOMAIN tasks : tasks[i].ends <= StartsOf(i)
====
